---- MODULE Spec2Model ----
(***************************************************************************)
(* A model of the snepsek bot framework's orchestration core.              *)
(*                                                                         *)
(*   ClientSpec : Client (src/src/Client.ts) - module registration and the *)
(*                sequencing of the modules' lifecycle hooks by connect(), *)
(*                the transport's ready event, addModule() and stop().     *)
(*   TaskSpec   : ModuleTask (src/src/modules/Module.ts, lines 343-455) -  *)
(*                start(), stop(), trigger() and the interval timer.       *)
(*                                                                         *)
(* JavaScript runs one callback at a time; an async function runs          *)
(* synchronously up to its next await.  Every action below is one such     *)
(* run: from a call, or from the settlement of the awaited promise (the    *)
(* continuation runs in the microtask that follows it), to the next await. *)
(***************************************************************************)
EXTENDS Integers, Sequences, FiniteSets, Bags, TLC

(***************************************************************************)
(* Bounds of the model.                                                    *)
(***************************************************************************)
\* Module instances constructed by addModule over one run.
MaxInstances == 2
\* Ready events the transport emits over one run (a reconnect emits another).
MaxReady == 2
\* The clock stops here.
MaxTime == 4000
\* Calls of start() over one run.
MaxStarts == 2
\* Timer-started triggers whose handler has not settled yet.
MaxInFlight == 2
\* Commands registered with registerCommand over one run.
MaxRegistrations == 3
\* execute() and _handleMessage() calls that have not finished.
MaxExecs == 2
\* Command handlers invoked and not settled yet, plus the calls above.
MaxHandlers == 3
\* Inhibitors added with useInhibitor over one run.
MaxInhibitors == 2
\* Pages added to one PagedEmbed.
MaxPages == 3
\* How far below zero currentPageIndex is followed.
MaxBelow == 3
\* init() calls of one PagedEmbed awaiting channel.createMessage.
MaxInits == 1
\* destroy() calls of one PagedEmbed awaiting the transport.
MaxDestroys == 2
\* addDefaultControls() calls of one PagedEmbed, finished or not.
MaxControls == 1

(***************************************************************************)
(* Inputs.                                                                 *)
(***************************************************************************)
\* Module classes (Map keys are the classes' names).
ModuleTypes == {"A", "B"}
\* The arguments of one addModule(...modules) call.
AddBatches ==
    {<<t>> : t \in ModuleTypes} \cup {<<t, u>> : t \in ModuleTypes, u \in ModuleTypes}
\* connect(token): no token, or some token.
Tokens == {"", "tok"}

\* The options of the task of tests/index.ts.
TestOffset == 1000
TestRunEvery == 1000
TestRunFor == 3
TestOptions == [offset |-> TestOffset, runEvery |-> TestRunEvery, runFor |-> TestRunFor]
DEFAULT_TASK_OPTIONS == [offset |-> 0, runEvery |-> 0, runFor |-> 0]
\* The options a task is constructed with.
TaskOptions ==
    [offset : {0, TestOffset}, runEvery : {0, TestRunEvery}, runFor : {0, 1, TestRunFor}]
\* How the handler ends: TRUE fulfilled, FALSE thrown or rejected.
Outcomes == BOOLEAN

Instances == 1..MaxInstances
Hooks == {"willInit", "didInit", "willUnload", "didUnload"}

VARIABLES
    \* ---- Client ----
    modOrder,          \* Client.modules: the keys in insertion order
    modInst,           \* Client.modules: key -> the instance stored (0: none)
    nextInst,          \* instances constructed so far
    connectionStatus,  \* Client.connectionStatus
    transport,         \* the Eris client: "idle", "connected", "disconnected"
    readyListener,     \* this.on('ready', ...) has been registered
    readyCount,        \* ready events emitted
    conn,              \* the connect() call
    stopP,             \* the stop() call
    readyH,            \* the ready listener's runs that have not finished (a bag)
    adds,              \* the addModule() calls that have not finished (a set)
    started,           \* hook -> instance -> times the hook was invoked
    done,              \* hook -> instance -> times the hook's promise fulfilled
    exitCode,          \* -1 while the process runs, else process.exit's code
    \* ---- ModuleTask ----
    options,           \* ModuleTask.options
    loopCount,         \* ModuleTask._loop
    timer,             \* ModuleTask.timer: 0 (undefined) or the last handle
    intervals,         \* the armed intervals: [h: handle, due: next due time]
    nextHandle,        \* handles handed out by setInterval so far
    now,               \* the clock
    startCalls,        \* the start() calls: one record per call
    inFlight,          \* timer-started triggers awaiting their handler
    triggered,         \* times the handler was invoked
    firstTriggerAt,    \* when the handler was first invoked (-1: never)
    stopLog,           \* the last stop() call: what it returned, and whether
                       \* it cancelled an armed interval (<<>>: no call yet)
    failures,          \* times the handler failed, modulo 2
    escaped,           \* a handler failure left trigger() as a rejection
    lastCall           \* the last of start()/stop() called: "none", "start", "stop"

clientVars ==
    <<modOrder, modInst, nextInst, connectionStatus, transport, readyListener,
      readyCount, conn, stopP, readyH, adds, started, done, exitCode>>
taskVars ==
    <<options, loopCount, timer, intervals, nextHandle, now, startCalls, inFlight,
      triggered, firstTriggerAt, stopLog, failures, escaped, lastCall>>

VARIABLES
    \* ---- CommandRegistry ----
    regCommands,       \* CommandRegistry.commands: the command stored under id k
                       \* is regCommands[k + 1]
    aliases,           \* CommandRegistry.aliases: key -> command (0: no entry)
    nextCommandId,     \* CommandRegistry.nextCommandId
    lastOp,            \* the last call on the registry and what it did
    modCommands,       \* module -> name -> Module.commands (0: no entry)
    owner,             \* command -> Command.options.module (0: undefined)
    \* ---- Command ----
    disabled,          \* command -> Command.options.disabled
    inhibitors,        \* command -> Command.inhibitors
    execs,             \* the _handleMessage() and execute() calls that have not
                       \* finished (a bag)
    handlers,          \* the handler invocations that have not settled
    lastExec,          \* what the last step of an execute() call did
    rejections,        \* times a handler's promise rejected, modulo 2
    \* ---- PagedEmbed ----
    pages,             \* PagedEmbed.pages: the number of pages
    currentPageIndex,  \* PagedEmbed.currentPageIndex
    currentPage,       \* PagedEmbed.currentPage
    message,           \* PagedEmbed.message: 0 (undefined) or the message's id
    destroyed,         \* PagedEmbed.destroyed
    creating,          \* the init() calls awaiting channel.createMessage
    lastNav,           \* the last run of navigation calls: what was called, the
                       \* index before the run, and the number of calls
    listening,         \* the three client listeners of the embed are registered
    controls,          \* the sets of control listeners registered on the embed
    removing,          \* the destroy() calls awaiting message.removeReactions
    deleting,          \* the destroy() calls awaiting message.delete
    adding,            \* the addDefaultControls() calls awaiting addReaction,
                       \* each by the place (1..3) of the reaction (a bag)
    expiry,            \* the expiry timer: "none", "armed" or "fired"
    lastEmbedOp        \* the last step of the embed: the request it sent to the
                       \* transport, and whether the embed emitted an event

moduleVars == <<modCommands, owner>>
registryVars == <<regCommands, aliases, nextCommandId, lastOp, moduleVars>>
commandVars == <<disabled, inhibitors, execs, handlers, lastExec, rejections>>
lifeVars == <<listening, controls, removing, deleting, adding, expiry>>
embedVars == <<pages, currentPageIndex, currentPage, message, destroyed, creating,
               lastNav, lifeVars, lastEmbedOp>>
vars == <<clientVars, taskVars, registryVars, commandVars, embedVars>>

(***************************************************************************)
(* Client: state after construction.                                       *)
(***************************************************************************)
ConnectionStatus == {"CONNECTING", "READY", "DISCONNECTED", "RECONNECTING"}

\* A call that is not running.  pc: where the call is; pos, inst: the Map
\* place and the instance whose hook it awaits; snap: the instances
\* constructed before the call.
Idle == [pc |-> "idle", pos |-> 0, inst |-> 0, snap |-> 0]

ClientInit ==
    /\ modOrder = <<>>
    /\ modInst = [t \in ModuleTypes |-> 0]
    /\ nextInst = 0
    /\ connectionStatus = "DISCONNECTED"
    /\ transport = "idle"
    /\ readyListener = FALSE
    /\ readyCount = 0
    /\ conn = Idle
    /\ stopP = Idle
    /\ readyH = EmptyBag
    /\ adds = {}
    /\ started = [h \in Hooks |-> [i \in Instances |-> 0]]
    /\ done = [h \in Hooks |-> [i \in Instances |-> 0]]
    /\ exitCode = -1

\* A task constructed with the default options and never started.
TaskIdle ==
    /\ options = DEFAULT_TASK_OPTIONS
    /\ loopCount = 0
    /\ timer = 0
    /\ intervals = {}
    /\ nextHandle = 0
    /\ now = 0
    /\ startCalls = <<>>
    /\ inFlight = 0
    /\ triggered = 0
    /\ firstTriggerAt = -1
    /\ stopLog = <<>>
    /\ failures = 0
    /\ escaped = FALSE
    /\ lastCall = "none"

RunningEver == TRUE
Running == exitCode = -1

(***************************************************************************)
(* Commands, messages and the registry: inputs and the state after         *)
(* construction.  A string is a sequence of characters.                    *)
(***************************************************************************)
\* The prefix of a guild without settings of its own.
DEFAULT_PREFIX == <<"!">>

\* The names and aliases commands are declared with.
Key_u == <<"u">>
Key_uwu == <<"u", "w", "u">>
Key_u_w == <<"u", " ", "w">>
Keys == {Key_u, Key_uwu, Key_u_w}

\* The Command instances: new Command(name, handler, {aliases}).
CommandPool ==
    << [name |-> Key_uwu, aliases |-> <<Key_u, Key_uwu>>],
       [name |-> Key_uwu, aliases |-> <<Key_u_w, Key_u>>] >>
Cmds == 1..Len(CommandPool)

\* The texts of inbound messages.
Texts ==
    { <<"!", "u">>, <<"!", "u", "w", "u">>, <<"!", "U">>, <<"!", "u", " ", "w">>,
      <<"!", "u", "\t", "w">>, <<"!", " ", "u">>, <<"!", "w">>, <<"?", "u">>,
      <<"u">>, <<"!">>, <<>>, <<"!", "u", "w", "u", " ", "u">> }
\* An inbound message: guild is whether message.member is set.
Messages ==
    [guild : {TRUE}, text : Texts] \cup [guild : {FALSE}, text : {<<"!", "u">>, <<"u">>}]
NoMessage == [guild |-> FALSE, text |-> <<>>]

\* The contexts a command is executed in: guild is whether the message has a
\* member (Context.guild), channel is the type of the message's channel.
GuildContext == [guild |-> TRUE, channel |-> "GuildText"]
Contexts ==
    { GuildContext,
      [guild |-> FALSE, channel |-> "DM"],
      [guild |-> FALSE, channel |-> "Group"] }

\* The inhibitors: the two built-in ones, and one supplied by the user.
InhibitorKinds == {"guildOnly", "dmOnly", "custom"}
\* How the evaluation of an inhibitor ends.
InhibitorOutcomes == {"truthy", "falsy", "throws"}

NoOp == [op |-> "none", cmd |-> 0, warned |-> {}, msg |-> NoMessage, consulted |-> FALSE]

\* The modules that commands are added to.
ModuleIds == {1, 2}

\* Modules without commands, and commands without module.
ModulesIdle ==
    /\ modCommands = [mo \in ModuleIds |-> [k \in Keys |-> 0]]
    /\ owner = [c \in Cmds |-> 0]

RegistryInit ==
    /\ regCommands = <<>>
    /\ aliases = [k \in Keys |-> 0]
    /\ nextCommandId = 0
    /\ lastOp = NoOp
    /\ ModulesIdle

\* lastExec before any execute(): out is how the inhibitor evaluated in the
\* last step of an execute() ended, handler whether that step invoked the
\* handler ("no", or "enabled"/"disabled": the command's flag at that time).
NoExec == [out |-> "none", handler |-> "no"]

\* Commands as constructed, none of them being executed.
CommandIdle ==
    /\ disabled = [c \in Cmds |-> FALSE]
    /\ inhibitors = [c \in Cmds |-> <<>>]
    /\ execs = EmptyBag
    /\ handlers = 0
    /\ lastExec = NoExec
    /\ rejections = 0

NoNav == [op |-> "none", from |-> 0, n |-> 0]

\* The values of PagedEmbed.currentPage: the page built by the field's
\* initializer, a page of the pages array, or undefined.
Placeholder == [kind |-> "placeholder", at |-> 0]
PageAt(i) == [kind |-> "page", at |-> i]
Undefined == [kind |-> "undefined", at |-> 0]

NoEmbedOp == [req |-> "none", emitted |-> FALSE]

\* A PagedEmbed as constructed with options.expireAfter = expireAfter.
Constructed(expireAfter) ==
    /\ pages = 0
    /\ currentPageIndex = 0
    /\ currentPage = Placeholder
    /\ message = 0
    /\ destroyed = FALSE
    /\ creating = 0
    /\ lastNav = NoNav
    /\ listening = TRUE
    /\ controls = 0
    /\ removing = 0
    /\ deleting = 0
    /\ adding = EmptyBag
    /\ expiry = IF expireAfter > 0 THEN "armed" ELSE "none"
    /\ lastEmbedOp = NoEmbedOp

\* A PagedEmbed as constructed without expiry.
EmbedInit == Constructed(0)

(***************************************************************************)
(* Client.modules: a Map.  set() of a new key appends it; set() of a key   *)
(* already present replaces the value and keeps the key's place.  A for-of *)
(* over the Map is live: it visits entries appended while it is suspended. *)
(***************************************************************************)
MapSet(order, inst, t, id) ==
    [order |-> IF inst[t] = 0 THEN Append(order, t) ELSE order,
     inst |-> [inst EXCEPT ![t] = id]]

\* The instance stored at place p of the Map.
InstAt(p) == modInst[modOrder[p]]

\* A Map iterator: the place it moves to from place p (0: the iteration is
\* over); an iteration starts from place 0.
NextEntrySkipping(order, p) == IF p + 1 < Len(order) THEN p + 2 ELSE 0
NextEntry(order, p) == IF p < Len(order) THEN p + 1 ELSE 0

\* The place of instance i in the Map (0: i is not stored, or was replaced).
PlaceOf(i) ==
    IF \E p \in 1..Len(modOrder) : InstAt(p) = i
    THEN CHOOSE p \in 1..Len(modOrder) : InstAt(p) = i
    ELSE 0

Held(i) == PlaceOf(i) # 0

\* addModule's loop while the client is not ready: construct and store each
\* module, awaiting nothing.
RECURSIVE RegisterAll(_, _, _, _)
RegisterAll(ts, order, inst, n) ==
    IF ts = <<>>
    THEN [order |-> order, inst |-> inst, n |-> n]
    ELSE LET m == MapSet(order, inst, Head(ts), n + 1)
         IN  RegisterAll(Tail(ts), m.order, m.inst, n + 1)

\* The hook counters after hook h of instance i is invoked / has fulfilled.
Invoke(cnt, h, i) == [cnt EXCEPT ![h][i] = @ + 1]
Fulfil(cnt, h, i) == [cnt EXCEPT ![h][i] = @ + 1]

(***************************************************************************)
(* Client.connect                                                          *)
(***************************************************************************)
\* connect(token) up to `await this.provider.init()`; without a token the
\* process exits with status 1.
Connect(tok) ==
    /\ Running
    /\ conn.pc = "idle"
    /\ IF tok = ""
       THEN /\ exitCode' = 1
            /\ conn' = [conn EXCEPT !.pc = "exited"]
       ELSE /\ conn' = [conn EXCEPT !.pc = "provider", !.snap = nextInst]
            /\ UNCHANGED exitCode
    /\ UNCHANGED <<modOrder, modInst, nextInst, connectionStatus, transport,
                   readyListener, readyCount, stopP, readyH, adds, started, done>>
    /\ UNCHANGED <<taskVars, registryVars, commandVars, embedVars>>

\* connect() after preInitializeModules has returned: the status becomes
\* CONNECTING and super.connect() is awaited.
ConnectTransport ==
    /\ connectionStatus' = "CONNECTING"
    /\ transport' = "connected"
    /\ conn' = [conn EXCEPT !.pc = "superConnect", !.pos = 0, !.inst = 0]

\* One step of preInitializeModules' loop from place p: the next module's
\* willInit is invoked and awaited, or the loop is over and connect() goes on.
PreInitStep(p) ==
    LET nxt == NextEntry(modOrder, p)
    IN  IF nxt # 0
        THEN /\ started' = Invoke(started, "willInit", InstAt(nxt))
             /\ conn' = [conn EXCEPT !.pc = "preInit", !.pos = nxt, !.inst = InstAt(nxt)]
             /\ UNCHANGED <<connectionStatus, transport>>
        ELSE /\ ConnectTransport
             /\ UNCHANGED started

\* provider.init() has settled: preInitializeModules starts.
ConnectProviderReady ==
    /\ Running
    /\ conn.pc = "provider"
    /\ PreInitStep(0)
    /\ UNCHANGED <<modOrder, modInst, nextInst, readyListener, readyCount, stopP,
                   readyH, adds, done, exitCode>>
    /\ UNCHANGED <<taskVars, registryVars, commandVars, embedVars>>

\* The willInit awaited by preInitializeModules settles: fulfilled, the loop
\* goes on; rejected, connect() rejects.
ConnectHookSettles(ok) ==
    /\ Running
    /\ conn.pc = "preInit"
    /\ IF ok
       THEN /\ done' = Fulfil(done, "willInit", conn.inst)
            /\ PreInitStep(conn.pos)
       ELSE /\ conn' = [conn EXCEPT !.pc = "failed"]
            /\ UNCHANGED <<done, started, connectionStatus, transport>>
    /\ UNCHANGED <<modOrder, modInst, nextInst, readyListener, readyCount, stopP,
                   readyH, adds, exitCode>>
    /\ UNCHANGED <<taskVars, registryVars, commandVars, embedVars>>

\* super.connect() has resolved: the ready listener is registered.
ConnectListen ==
    /\ Running
    /\ conn.pc = "superConnect"
    /\ readyListener' = TRUE
    /\ conn' = [conn EXCEPT !.pc = "done"]
    /\ UNCHANGED <<modOrder, modInst, nextInst, connectionStatus, transport,
                   readyCount, stopP, readyH, adds, started, done, exitCode>>
    /\ UNCHANGED <<taskVars, registryVars, commandVars, embedVars>>

(***************************************************************************)
(* The ready listener (Client.connect, lines 97-106)                       *)
(***************************************************************************)
\* One step of postInitializeModules' loop from place p, for the listener's
\* runs rest (the bag without the run that takes the step).
PostInitStep(rest, p) ==
    LET nxt == NextEntry(modOrder, p)
    IN  IF nxt # 0
        THEN /\ started' = Invoke(started, "didInit", InstAt(nxt))
             /\ readyH' = rest (+) SetToBag({[pos |-> nxt, inst |-> InstAt(nxt)]})
        ELSE /\ readyH' = rest
             /\ UNCHANGED started

\* The transport emits ready (once connected, and again after a reconnect):
\* the status becomes READY and postInitializeModules starts.
ReadyEvent ==
    /\ Running
    /\ readyListener
    /\ transport = "connected"
    /\ readyCount < MaxReady
    /\ readyCount' = readyCount + 1
    /\ connectionStatus' = "READY"
    /\ PostInitStep(readyH, 0)
    /\ UNCHANGED <<modOrder, modInst, nextInst, transport, readyListener, conn,
                   stopP, adds, done, exitCode>>
    /\ UNCHANGED <<taskVars, registryVars, commandVars, embedVars>>

\* The didInit awaited by the listener's run r settles: fulfilled, the loop
\* goes on; rejected, the run ends.
ReadyHookSettles(r, ok) ==
    /\ Running
    /\ r \in BagToSet(readyH)
    /\ IF ok
       THEN /\ done' = Fulfil(done, "didInit", r.inst)
            /\ PostInitStep(readyH (-) SetToBag({r}), r.pos)
       ELSE /\ readyH' = readyH (-) SetToBag({r})
            /\ UNCHANGED <<done, started>>
    /\ UNCHANGED <<modOrder, modInst, nextInst, connectionStatus, transport,
                   readyListener, readyCount, conn, stopP, adds, exitCode>>
    /\ UNCHANGED <<taskVars, registryVars, commandVars, embedVars>>

(***************************************************************************)
(* Client.addModule                                                        *)
(***************************************************************************)
\* addModule's loop over the modules ts still to add, for the calls rest (the
\* set without the call that takes the step); prev is the module this call
\* added last.  The module is constructed and stored; when the client is
\* READY its willInit is invoked and awaited, otherwise the loop goes on.
AddStep(rest, ts, prev) ==
    IF ts = <<>>
    THEN /\ adds' = rest
         /\ UNCHANGED <<modOrder, modInst, nextInst, started>>
    ELSE IF connectionStatus = "READY"
    THEN LET id == nextInst + 1
             m == MapSet(modOrder, modInst, Head(ts), id)
         IN  /\ modOrder' = m.order
             /\ modInst' = m.inst
             /\ nextInst' = id
             /\ started' = Invoke(started, "willInit", id)
             /\ adds' = rest \cup {[ph |-> "willInit", inst |-> id,
                                    todo |-> Tail(ts), prev |-> prev]}
    ELSE LET r == RegisterAll(ts, modOrder, modInst, nextInst)
         IN  /\ modOrder' = r.order
             /\ modInst' = r.inst
             /\ nextInst' = r.n
             /\ adds' = rest
             /\ UNCHANGED started

\* The modules the suspended addModule calls cs have still to construct.
RECURSIVE Outstanding(_)
Outstanding(cs) ==
    IF cs = {} THEN 0
    ELSE LET c == CHOOSE x \in cs : TRUE
         IN  Len(c.todo) + Outstanding(cs \ {c})

AddModule(ts) ==
    /\ Running
    /\ nextInst + Outstanding(adds) + Len(ts) <= MaxInstances
    /\ AddStep(adds, ts, 0)
    /\ UNCHANGED <<connectionStatus, transport, readyListener, readyCount, conn,
                   stopP, readyH, done, exitCode>>
    /\ UNCHANGED <<taskVars, registryVars, commandVars, embedVars>>

\* The hook awaited by the addModule call c settles.  Fulfilled: after
\* willInit the module's didInit is invoked and awaited, after didInit the
\* loop goes on with the next module.  Rejected: the call rejects.
AddHookSettles(c, ok) ==
    /\ Running
    /\ c \in adds
    /\ IF ~ok
       THEN /\ adds' = adds \ {c}
            /\ UNCHANGED <<modOrder, modInst, nextInst, started, done>>
       ELSE /\ done' = Fulfil(done, c.ph, c.inst)
            /\ IF c.ph = "willInit"
               THEN /\ started' = Invoke(started, "didInit", c.inst)
                    /\ adds' = (adds \ {c}) \cup {[c EXCEPT !.ph = "didInit"]}
                    /\ UNCHANGED <<modOrder, modInst, nextInst>>
               ELSE AddStep(adds \ {c}, c.todo, c.inst)
    /\ UNCHANGED <<connectionStatus, transport, readyListener, readyCount, conn,
                   stopP, readyH, exitCode>>
    /\ UNCHANGED <<taskVars, registryVars, commandVars, embedVars>>

(***************************************************************************)
(* Client.stop                                                             *)
(***************************************************************************)
\* stop() after modulesDidUnload has returned.
StopExit ==
    /\ exitCode' = 0
    /\ stopP' = [stopP EXCEPT !.pc = "done", !.pos = 0, !.inst = 0]

\* One step of modulesDidUnload's loop from place p.
DidUnloadStep(p, snap) ==
    LET nxt == NextEntry(modOrder, p)
    IN  IF nxt # 0
        THEN /\ started' = Invoke(started, "didUnload", InstAt(nxt))
             /\ stopP' = [pc |-> "didUnload", pos |-> nxt, inst |-> InstAt(nxt),
                          snap |-> snap]
             /\ UNCHANGED exitCode
        ELSE /\ StopExit
             /\ UNCHANGED started

\* One step of modulesWillUnload's loop from place p; after the loop stop()
\* disconnects the transport and starts modulesDidUnload.
WillUnloadStepDisconnectFirst(p, snap) ==
    LET nxt == NextEntry(modOrder, p)
    IN  IF nxt # 0
        THEN /\ started' = Invoke(started, "willUnload", InstAt(nxt))
             /\ stopP' = [pc |-> "willUnload", pos |-> nxt, inst |-> InstAt(nxt),
                          snap |-> snap]
             /\ transport' = "disconnected"
             /\ UNCHANGED exitCode
        ELSE /\ transport' = "disconnected"
             /\ DidUnloadStep(0, snap)
WillUnloadStep(p, snap) ==
    LET nxt == NextEntry(modOrder, p)
    IN  IF nxt # 0
        THEN /\ started' = Invoke(started, "willUnload", InstAt(nxt))
             /\ stopP' = [pc |-> "willUnload", pos |-> nxt, inst |-> InstAt(nxt),
                          snap |-> snap]
             /\ UNCHANGED <<transport, exitCode>>
        ELSE /\ transport' = "disconnected"
             /\ DidUnloadStep(0, snap)

Stop ==
    /\ Running
    /\ stopP.pc = "idle"
    /\ WillUnloadStep(0, nextInst)
    /\ UNCHANGED <<modOrder, modInst, nextInst, connectionStatus, readyListener,
                   readyCount, conn, readyH, adds, done>>
    /\ UNCHANGED <<taskVars, registryVars, commandVars, embedVars>>

\* The hook awaited by stop() settles: fulfilled, its loop goes on; rejected,
\* stop() rejects.
StopHookSettles(ok) ==
    /\ Running
    /\ stopP.pc \in {"willUnload", "didUnload"}
    /\ IF ~ok
       THEN /\ stopP' = [stopP EXCEPT !.pc = IF stopP.pc = "willUnload"
                                              THEN "failedWillUnload"
                                              ELSE "failedDidUnload"]
            /\ UNCHANGED <<done, started, transport, exitCode>>
       ELSE /\ done' = Fulfil(done, stopP.pc, stopP.inst)
            /\ IF stopP.pc = "willUnload"
               THEN WillUnloadStep(stopP.pos, stopP.snap)
               ELSE /\ DidUnloadStep(stopP.pos, stopP.snap)
                    /\ UNCHANGED transport
    /\ UNCHANGED <<modOrder, modInst, nextInst, connectionStatus, readyListener,
                   readyCount, conn, readyH, adds>>
    /\ UNCHANGED <<taskVars, registryVars, commandVars, embedVars>>

(***************************************************************************)
(* The client's lifecycle.                                                 *)
(***************************************************************************)
ClientNext ==
    \/ \E tok \in Tokens : Connect(tok)
    \/ ConnectProviderReady
    \/ \E ok \in Outcomes : ConnectHookSettles(ok)
    \/ ConnectListen
    \/ ReadyEvent
    \/ \E r \in BagToSet(readyH), ok \in Outcomes : ReadyHookSettles(r, ok)
    \/ \E ts \in AddBatches : AddModule(ts)
    \/ \E c \in adds, ok \in Outcomes : AddHookSettles(c, ok)
    \/ Stop
    \/ \E ok \in Outcomes : StopHookSettles(ok)

ClientSpecInit == ClientInit /\ TaskIdle /\ RegistryInit /\ CommandIdle /\ EmbedInit

ClientSpec == ClientSpecInit /\ [][ClientNext]_vars

(***************************************************************************)
(* Properties of the client's lifecycle (ClientSpec).                      *)
(***************************************************************************)
\* Instance i was added before connect() was called, and is still stored.
PreConnect(i) == i \in 1..conn.snap /\ Held(i)

\* Instance i was added before stop() was called, and is still stored.
PreStop(i) == i \in 1..stopP.snap /\ Held(i)

\* stop() has called this.disconnect().
StopDisconnected == stopP.pc \in {"didUnload", "done", "failedDidUnload"}

\* The instances with a lifecycle hook in flight.
HooksInFlight ==
    (IF conn.pc = "preInit" THEN {conn.inst} ELSE {})
    \cup (IF stopP.pc \in {"willUnload", "didUnload"} THEN {stopP.inst} ELSE {})
    \cup {r.inst : r \in BagToSet(readyH)}
    \cup {c.inst : c \in adds}

\* C1, as stated: whenever the willInit of a module has been invoked, the
\* didInit of every module registered before it has completed.
C1_DidInitBeforeNextWillInit ==
    \A i, j \in Instances :
        (Held(i) /\ Held(j) /\ PlaceOf(i) < PlaceOf(j) /\ started["willInit"][j] > 0)
            => done["didInit"][i] > 0

\* C1, amended: for the modules added before connect(), willInit runs in
\* registration order, module k's willInit completing before module k+1's
\* begins; no didInit begins before every willInit has completed; didInit
\* runs in registration order, module k's didInit completing before module
\* k+1's begins.  For the modules of one addModule call made while the client
\* is ready, module k's didInit completes before module k+1's willInit begins.
C1_TwoPhaseInitOrder ==
    /\ \A i, j \in Instances :
          (PreConnect(i) /\ PreConnect(j)) =>
              /\ (PlaceOf(i) < PlaceOf(j) /\ started["willInit"][j] > 0)
                     => done["willInit"][i] > 0
              /\ started["didInit"][i] > 0 => done["willInit"][j] > 0
              /\ (PlaceOf(i) < PlaceOf(j) /\ started["didInit"][j] > 0)
                     => done["didInit"][i] > 0
    /\ \A c \in adds :
          (c.prev # 0 /\ started["willInit"][c.inst] > 0) => done["didInit"][c.prev] > 0

\* C1, witness: two modules added before connect() have both been brought up.
C1_Witness ==
    \E i, j \in Instances :
        /\ i # j /\ PreConnect(i) /\ PreConnect(j)
        /\ done["didInit"][i] > 0 /\ done["didInit"][j] > 0

\* C2: lifecycle hooks of two different modules are never in flight at the
\* same time.
C2_OneModuleInFlight == Cardinality(HooksInFlight) <= 1

\* C3: the didInit of a module held by the client is invoked only after that
\* module's willInit has completed.
C3_WillInitBeforeDidInit ==
    \A i \in Instances :
        (Held(i) /\ started["didInit"][i] > 0) => done["willInit"][i] > 0

\* C4: on stop(), for the modules held when stop() was called: the transport
\* is disconnected only after the willUnload of each has completed; a
\* didUnload starts only after the disconnect; the process exits only after
\* the didUnload of each has completed; both hooks run in insertion order,
\* one module at a time.
C4_StopOrder ==
    /\ transport = "disconnected" => \A i \in Instances :
          PreStop(i) => done["willUnload"][i] > 0
    /\ \A i \in Instances : started["didUnload"][i] > 0 => StopDisconnected
    /\ exitCode = 0 => \A i \in Instances : PreStop(i) => done["didUnload"][i] > 0
    /\ \A i, j \in Instances :
          (PreStop(i) /\ PreStop(j) /\ PlaceOf(i) < PlaceOf(j)) =>
              /\ started["willUnload"][j] > 0 => done["willUnload"][i] > 0
              /\ started["didUnload"][j] > 0 => done["didUnload"][i] > 0
    /\ StopDisconnected => \A i \in Instances :
          PreStop(i) => done["willUnload"][i] > 0

\* C4, witness: stop() has unloaded two modules and the process has exited.
C4_Witness ==
    /\ exitCode = 0
    /\ \E i, j \in Instances :
          i # j /\ PreStop(i) /\ PreStop(j) /\ done["didUnload"][j] > 0

(***************************************************************************)
(* ModuleTask (src/src/modules/Module.ts, lines 343-455)                   *)
(***************************************************************************)
TaskInit ==
    /\ options \in TaskOptions
    /\ loopCount = 0
    /\ timer = 0
    /\ intervals = {}
    /\ nextHandle = 0
    /\ now = 0
    /\ startCalls = <<>>
    /\ inFlight = 0
    /\ triggered = 0
    /\ firstTriggerAt = -1
    /\ stopLog = <<>>
    /\ failures = 0
    /\ escaped = FALSE
    /\ lastCall = "none"

\* waitFor(ms), called at time t: the time at which its promise resolves.
waitFor(t, ms) == t + ms

\* trigger()'s `try { await this.handler.apply(this.module) } catch (err) {...}`:
\* how the block ends for a handler that ends with outcome ok.
TryHandlerUncaught(ok) == IF ok THEN "completed" ELSE "thrown"
TryHandler(ok) == "completed"

\* trigger() invokes the handler.
InvokeHandler ==
    /\ triggered' = triggered + 1
    /\ firstTriggerAt' = IF firstTriggerAt = -1 THEN now ELSE firstTriggerAt

\* trigger() after the handler has settled: the counter advances, and at
\* runFor the interval held in this.timer is cleared.
TriggerTail(ok) ==
    /\ failures' = IF ok THEN failures ELSE 1 - failures
    /\ IF TryHandler(ok) = "thrown"
       THEN /\ escaped' = TRUE
            /\ UNCHANGED <<loopCount, intervals>>
       ELSE /\ loopCount' = loopCount + 1
            /\ intervals' = IF loopCount + 1 = options.runFor /\ timer # 0
                            THEN {i \in intervals : i.h # timer}
                            ELSE intervals
            /\ UNCHANGED escaped

\* start() after the offset wait, for call k of calls: the interval is armed
\* when runEvery is set, and the first trigger is invoked and awaited.
StartBodyDetached(calls, k) ==
    /\ IF options.runEvery # 0
       THEN /\ timer' = nextHandle + 1
            /\ nextHandle' = nextHandle + 1
            /\ intervals' = intervals \cup
                   {[h |-> nextHandle + 1, due |-> now + options.runEvery]}
       ELSE UNCHANGED <<timer, nextHandle, intervals>>
    /\ InvokeHandler
    /\ startCalls' = [calls EXCEPT ![k].pc = "trigger", ![k].at = now,
                                   ![k].ret = "resolved"]
StartBody(calls, k) ==
    /\ IF options.runEvery # 0
       THEN /\ timer' = nextHandle + 1
            /\ nextHandle' = nextHandle + 1
            /\ intervals' = intervals \cup
                   {[h |-> nextHandle + 1, due |-> now + options.runEvery]}
       ELSE UNCHANGED <<timer, nextHandle, intervals>>
    /\ InvokeHandler
    /\ startCalls' = [calls EXCEPT ![k].pc = "trigger", ![k].at = now]

\* start(): with an offset the call waits; without, it goes on at once.
Start ==
    /\ Len(startCalls) < MaxStarts
    /\ lastCall' = "start"
    /\ LET call == [pc |-> "offset", called |-> now, at |-> -1, ret |-> "pending"]
           calls == Append(startCalls, call)
       IN  IF options.offset # 0
           THEN /\ startCalls' = calls
                /\ UNCHANGED <<timer, nextHandle, intervals, triggered, firstTriggerAt>>
           ELSE StartBody(calls, Len(calls))
    /\ UNCHANGED <<options, loopCount, now, inFlight, stopLog, failures, escaped>>
    /\ UNCHANGED <<clientVars, registryVars, commandVars, embedVars>>

\* The offset wait of start() call k is over.
OffsetElapsed(k) ==
    /\ k \in 1..Len(startCalls)
    /\ startCalls[k].pc = "offset"
    /\ now >= waitFor(startCalls[k].called, options.offset)
    /\ StartBody(startCalls, k)
    /\ UNCHANGED <<options, loopCount, now, inFlight, stopLog, failures, escaped,
                   lastCall>>
    /\ UNCHANGED <<clientVars, registryVars, commandVars, embedVars>>

\* An armed interval is due: its callback calls trigger().
IntervalFires(i) ==
    /\ i \in intervals
    /\ i.due <= now
    /\ inFlight < MaxInFlight
    /\ intervals' = (intervals \ {i}) \cup {[i EXCEPT !.due = @ + options.runEvery]}
    /\ inFlight' = inFlight + 1
    /\ InvokeHandler
    /\ UNCHANGED <<options, loopCount, timer, nextHandle, now, startCalls, stopLog,
                   failures, escaped, lastCall>>
    /\ UNCHANGED <<clientVars, registryVars, commandVars, embedVars>>

\* The handler of the first trigger of start() call k settles: trigger()
\* finishes, and start() returns.
StartHandlerSettles(k, ok) ==
    /\ k \in 1..Len(startCalls)
    /\ startCalls[k].pc = "trigger"
    /\ TriggerTail(ok)
    /\ startCalls' = [startCalls EXCEPT
           ![k].pc = "done",
           ![k].ret = IF TryHandler(ok) = "thrown" THEN "rejected" ELSE "resolved"]
    /\ UNCHANGED <<options, timer, nextHandle, now, inFlight, triggered,
                   firstTriggerAt, stopLog, lastCall>>
    /\ UNCHANGED <<clientVars, registryVars, commandVars, embedVars>>

\* The handler of a trigger started by an interval settles.
IntervalHandlerSettles(ok) ==
    /\ inFlight > 0
    /\ inFlight' = inFlight - 1
    /\ TriggerTail(ok)
    /\ UNCHANGED <<options, timer, nextHandle, now, startCalls, triggered,
                   firstTriggerAt, stopLog, lastCall>>
    /\ UNCHANGED <<clientVars, registryVars, commandVars, embedVars>>

\* this._loop after stop(): stop() does not assign it.
LoopResetByStop(n) == 0
LoopAfterStop(n) == n

\* stop(): clearInterval(this.timer) when runEvery and this.timer are set.
StopTask ==
    /\ lastCall' = "stop"
    /\ loopCount' = LoopAfterStop(loopCount)
    /\ LET clears == options.runEvery # 0 /\ timer # 0
           armed == \E i \in intervals : i.h = timer
       IN  /\ intervals' = IF clears THEN {i \in intervals : i.h # timer} ELSE intervals
           /\ stopLog' = <<[ret |-> clears, cancelled |-> clears /\ armed]>>
    /\ UNCHANGED <<options, timer, nextHandle, now, startCalls, inFlight,
                   triggered, firstTriggerAt, failures, escaped>>
    /\ UNCHANGED <<clientVars, registryVars, commandVars, embedVars>>

\* The times at which a timer is due: the armed intervals, the offset waits.
Deadlines ==
    {i.due : i \in intervals} \cup
    {waitFor(startCalls[k].called, options.offset) :
        k \in {j \in 1..Len(startCalls) : startCalls[j].pc = "offset"}}

\* Time passes up to the next deadline; a timer that is due runs first.
Tick ==
    /\ Deadlines # {}
    /\ \A d \in Deadlines : d > now
    /\ \E d \in Deadlines :
          /\ \A e \in Deadlines : d <= e
          /\ d <= MaxTime
          /\ now' = d
    /\ UNCHANGED <<options, loopCount, timer, intervals, nextHandle, startCalls,
                   inFlight, triggered, firstTriggerAt, stopLog, failures, escaped,
                   lastCall>>
    /\ UNCHANGED <<clientVars, registryVars, commandVars, embedVars>>

TaskNext ==
    \/ Start
    \/ \E k \in 1..Len(startCalls) : OffsetElapsed(k)
    \/ \E i \in intervals : IntervalFires(i)
    \/ \E k \in 1..Len(startCalls), ok \in Outcomes : StartHandlerSettles(k, ok)
    \/ \E ok \in Outcomes : IntervalHandlerSettles(ok)
    \/ StopTask
    \/ Tick

TaskSpecInit == TaskInit /\ ClientInit /\ RegistryInit /\ CommandIdle /\ EmbedInit

TaskSpec == TaskSpecInit /\ [][TaskNext]_vars

(***************************************************************************)
(* Properties of the task (TaskSpec).                                      *)
(***************************************************************************)
\* C5: the task of tests/index.ts ({offset: 1000, runEvery: 1000, runFor: 3}),
\* started once, triggers its handler at most 3 times, whatever the handler
\* does; its first trigger comes no earlier than 1000 after start(); once 3
\* triggers have completed no interval is armed.
C5_TestTaskTriggersThrice ==
    (options = TestOptions /\ Len(startCalls) = 1) =>
        /\ triggered <= TestRunFor
        /\ firstTriggerAt # -1 => firstTriggerAt >= startCalls[1].called + TestOffset
        /\ loopCount >= TestRunFor => intervals = {}

\* C6: stop() returns true exactly when it cancels an armed interval: false
\* with runEvery = 0, false when the interval was already cancelled by an
\* earlier stop() or by the runFor auto-stop.
C6_StopReportsCancellation ==
    \A k \in 1..Len(stopLog) : stopLog[k].ret = stopLog[k].cancelled

\* C7: a handler failure never leaves trigger() or start() as a rejection;
\* loopCount still advances by exactly one for that trigger; the armed
\* intervals stay armed unless loopCount thereby reaches runFor.
C7_FailureIsContained ==
    [][failures' # failures =>
          /\ loopCount' = loopCount + 1
          /\ ~escaped'
          /\ \A k \in 1..Len(startCalls') : startCalls'[k].ret # "rejected"
          /\ loopCount' # options.runFor => intervals' = intervals]_vars

\* C7, witness: the handler has failed, the counter has advanced and the
\* interval is still armed.
C7_Witness == failures = 1 /\ loopCount = 1 /\ intervals # {} /\ ~escaped

\* C8: start() invokes the first trigger at the moment its offset wait is
\* over (itself, not through the interval); it returns only after that
\* trigger's handler has settled; an interval is armed only when runEvery > 0.
C8_StartAwaitsFirstTrigger ==
    /\ \A k \in 1..Len(startCalls) :
          /\ startCalls[k].pc # "offset"
                 => startCalls[k].at = startCalls[k].called + options.offset
          /\ startCalls[k].ret # "pending" => startCalls[k].pc = "done"
    /\ triggered >= Cardinality({k \in 1..Len(startCalls) : startCalls[k].pc # "offset"})
    /\ intervals # {} => options.runEvery > 0

\* C8, witness: a start() with an offset and an interval has returned, its
\* interval armed and not yet fired.
C8_Witness ==
    /\ options.offset > 0 /\ options.runEvery > 0
    /\ \E k \in 1..Len(startCalls) :
          /\ startCalls[k].ret = "resolved"
          /\ \E i \in intervals : i.due = startCalls[k].at + options.runEvery

\* C9: with runFor > 0, loopCount never exceeds runFor.
C9_LoopCountBounded == options.runFor > 0 => loopCount <= options.runFor

\* C10: once stop() has returned, the handler is not triggered again until
\* start() is called again.
C10_NoTriggerAfterStop ==
    [][(lastCall = "stop" /\ lastCall' = "stop") => triggered' = triggered]_vars

(***************************************************************************)
(* CommandRegistry (src/src/commands/Context.ts, lines 94-205)             *)
(***************************************************************************)
CmdName(c) == CommandPool[c].name
CmdAliases(c) == CommandPool[c].aliases
\* The keys command c is declared with: its name and its aliases.
KeysOf(c) == {CmdName(c)} \cup {CmdAliases(c)[i] : i \in 1..Len(CmdAliases(c))}

\* this.aliases.get(key) and this.aliases.set(key, c).
AliasGet(tbl, key) == IF key \in DOMAIN tbl THEN tbl[key] ELSE 0
AliasSet(tbl, key, c) == [tbl EXCEPT ![key] = c]

\* registerCommandAlias(c, alias) on the table st.tbl: an entry already there
\* is warned about, and overwritten.
RegisterAlias(st, c, alias) ==
    [tbl |-> AliasSet(st.tbl, alias, c),
     warned |-> IF AliasGet(st.tbl, alias) # 0 THEN st.warned \cup {alias} ELSE st.warned]

\* command.options.aliases.forEach((v) => this.registerCommandAlias(command, v))
RECURSIVE RegisterAliases(_, _, _)
RegisterAliases(st, c, as) ==
    IF as = <<>> THEN st
    ELSE RegisterAliases(RegisterAlias(st, c, Head(as)), c, Tail(as))

\* registerCommand(c): the command is stored under the next id and under its
\* name, then under each of its aliases.
Registering(c) ==
    /\ nextCommandId < MaxRegistrations
    /\ LET named == [tbl |-> AliasSet(aliases, CmdName(c), c), warned |-> {}]
           st == RegisterAliases(named, c, CmdAliases(c))
       IN  /\ aliases' = st.tbl
           /\ lastOp' = [NoOp EXCEPT !.op = "registerCommand", !.cmd = c,
                                     !.warned = st.warned]
    /\ regCommands' = Append(regCommands, c)
    /\ nextCommandId' = nextCommandId + 1

RegisterCommand(c) ==
    /\ Registering(c)
    /\ UNCHANGED moduleVars
    /\ UNCHANGED <<clientVars, taskVars, commandVars, embedVars>>

\* registerCommandAlias(c, alias), called from outside the registry.
RegisterCommandAlias(c, alias) ==
    /\ LET st == RegisterAlias([tbl |-> aliases, warned |-> {}], c, alias)
       IN  /\ aliases' = st.tbl
           /\ lastOp' = [NoOp EXCEPT !.op = "registerCommandAlias", !.cmd = c,
                                     !.warned = st.warned]
    /\ UNCHANGED <<regCommands, nextCommandId, moduleVars>>
    /\ UNCHANGED <<clientVars, taskVars, commandVars, embedVars>>

\* unregisterCommandAlias(alias)
UnregisterCommandAlias(alias) ==
    /\ aliases' = [aliases EXCEPT ![alias] = 0]
    /\ lastOp' = [NoOp EXCEPT !.op = "unregisterCommandAlias"]
    /\ UNCHANGED <<regCommands, nextCommandId, moduleVars>>
    /\ UNCHANGED <<clientVars, taskVars, commandVars, embedVars>>

(***************************************************************************)
(* findCommandFromMessage: String.prototype.slice, trim and split(" ").    *)
(***************************************************************************)
\* The characters trim() removes.
IsWhiteSpace(ch) == ch \in {" ", "\t"}

\* content.slice(prefix.length)
StripPrefixKeeping(content, prefix) == content
StripPrefix(content, prefix) == SubSeq(content, Len(prefix) + 1, Len(content))

RECURSIVE TrimStart(_)
TrimStart(s) ==
    IF s # <<>> /\ IsWhiteSpace(Head(s)) THEN TrimStart(Tail(s)) ELSE s
RECURSIVE TrimEnd(_)
TrimEnd(s) ==
    IF s # <<>> /\ IsWhiteSpace(s[Len(s)]) THEN TrimEnd(SubSeq(s, 1, Len(s) - 1)) ELSE s
Trim(s) == TrimEnd(TrimStart(s))

\* s.split(" ")[0]: the characters before the first space.
RECURSIVE SplitFirst(_)
SplitFirst(s) ==
    IF s = <<>> \/ Head(s) = " " THEN <<>> ELSE <<Head(s)>> \o SplitFirst(Tail(s))

\* provider.getPrefix(guildId): no guild has settings of its own.
GetPrefix == DEFAULT_PREFIX

\* args[0] of findCommandFromMessage.
FirstToken(content, prefix) == SplitFirst(Trim(StripPrefix(content, prefix)))

\* What findCommandFromMessage(msg) resolves to on the alias table tbl
\* (0: undefined).
FindCommand(tbl, msg) ==
    IF ~msg.guild THEN 0 ELSE AliasGet(tbl, FirstToken(msg.text, GetPrefix))

\* findCommandFromMessage(msg), from the lookup to its return; the provider
\* is consulted only for a message with a guild id.
FindCommandFromMessage(msg) ==
    /\ lastOp' = [NoOp EXCEPT !.op = "find", !.cmd = FindCommand(aliases, msg),
                              !.msg = msg, !.consulted = msg.guild]
    /\ UNCHANGED <<regCommands, aliases, nextCommandId, moduleVars>>
    /\ UNCHANGED <<clientVars, taskVars, commandVars, embedVars>>

RegistryNext ==
    \/ \E c \in Cmds : RegisterCommand(c)
    \/ \E c \in Cmds, k \in Keys : RegisterCommandAlias(c, k)
    \/ \E k \in Keys : UnregisterCommandAlias(k)
    \/ \E m \in Messages : FindCommandFromMessage(m)

RegistrySpecInit == RegistryInit /\ ClientInit /\ TaskIdle /\ CommandIdle /\ EmbedInit

RegistrySpec == RegistrySpecInit /\ [][RegistryNext]_vars

(***************************************************************************)
(* Properties of the registry (RegistrySpec).                              *)
(***************************************************************************)
\* The guild message whose text is the prefix followed by key k.
GuildMessage(k) == [guild |-> TRUE, text |-> DEFAULT_PREFIX \o k]

\* Key k is one token: it has no white space in it.
SingleToken(k) == \A i \in 1..Len(k) : ~IsWhiteSpace(k[i])

\* Command c has been registered with registerCommand.
Registered(c) == \E i \in 1..Len(regCommands) : regCommands[i] = c

\* C11, as stated: every key of a registered command whose entry in the alias table
\* still maps to the command resolves to it: the guild message made of the
\* prefix and the key is resolved to that command.
C11_EveryKeyResolves ==
    \A c \in Cmds : \A k \in KeysOf(c) :
        (Registered(c) /\ aliases[k] = c) =>
            /\ FindCommand(aliases, GuildMessage(k)) = c
            /\ (lastOp.op = "find" /\ lastOp.msg = GuildMessage(k)) => lastOp.cmd = c

\* C11, amended: the same for every key that is a single token (no space or
\* other white space in it); in particular "!u" and "!uwu" resolve to the
\* command named "uwu" with aliases ["u", "uwu"] once it is registered.
C11_EveryTokenKeyResolves ==
    \A c \in Cmds : \A k \in KeysOf(c) :
        (Registered(c) /\ SingleToken(k) /\ aliases[k] = c) =>
            /\ FindCommand(aliases, GuildMessage(k)) = c
            /\ (lastOp.op = "find" /\ lastOp.msg = GuildMessage(k)) => lastOp.cmd = c

\* C11, witness: after the command "uwu" with aliases ["u", "uwu"] is
\* registered, the guild message "!u" has been resolved to it, and "!uwu"
\* resolves to the same command.
C11_Witness ==
    /\ Registered(1)
    /\ lastOp.op = "find" /\ lastOp.msg = GuildMessage(Key_u) /\ lastOp.cmd = 1
    /\ FindCommand(aliases, GuildMessage(Key_uwu)) = 1

\* C12: a registration that replaces the command of an alias-table entry
\* leaves the entry mapped to the command being registered and logs a
\* warning about that key.
C12_CollisionWarns ==
    [][\A k \in Keys :
          (aliases[k] # 0 /\ aliases'[k] # 0 /\ aliases'[k] # aliases[k]) =>
              (aliases'[k] = lastOp'.cmd /\ k \in lastOp'.warned)]_vars

\* The first white-space-separated token of content after the prefix.
RECURSIVE UpToWhiteSpace(_)
UpToWhiteSpace(s) ==
    IF s = <<>> \/ IsWhiteSpace(Head(s)) THEN <<>>
    ELSE <<Head(s)>> \o UpToWhiteSpace(Tail(s))
WhiteSpaceToken(content, prefix) ==
    UpToWhiteSpace(TrimStart(SubSeq(content, Len(prefix) + 1, Len(content))))
StartsWith(content, prefix) ==
    Len(content) >= Len(prefix) /\ SubSeq(content, 1, Len(prefix)) = prefix

\* C13: findCommandFromMessage returns nothing for a message without a guild
\* id, and does not consult the provider; for a guild message that starts
\* with the prefix it returns the command stored under the first
\* white-space-separated token after the prefix, nothing if there is none.
C13_FindByFirstToken ==
    lastOp.op = "find" =>
        /\ ~lastOp.msg.guild => (lastOp.cmd = 0 /\ ~lastOp.consulted)
        /\ (lastOp.msg.guild /\ StartsWith(lastOp.msg.text, DEFAULT_PREFIX)) =>
              lastOp.cmd = AliasGet(aliases, WhiteSpaceToken(lastOp.msg.text, DEFAULT_PREFIX))

(***************************************************************************)
(* Command (src/src/modules/ModuleTask.ts, lines 83-222)                   *)
(***************************************************************************)
\* Context.isDM and Context.guild
isDM(ctx) == ctx.channel \in {"DM", "Group"}
\* The built-in inhibitors.
dmOnlyInhibitor(ctx) == isDM(ctx)
guildOnlyInverted(ctx) == ~ctx.guild
guildOnlyInhibitor(ctx) == ctx.guild

\* The ways `await inhibitor(ctx)` can end for an inhibitor of the given kind.
EvalInhibitor(kind, ctx) ==
    IF kind = "guildOnly"
    THEN {IF guildOnlyInhibitor(ctx) THEN "truthy" ELSE "falsy"}
    ELSE IF kind = "dmOnly"
    THEN {IF dmOnlyInhibitor(ctx) THEN "truthy" ELSE "falsy"}
    ELSE InhibitorOutcomes

\* callInhibitors' isInhibited after an inhibitor ended with out:
\* `!(await inhibitor(ctx))`, and false when it threw.
IsInhibitedFailClosed(out) == out \in {"falsy", "throws"}
IsInhibitedNever(out) == FALSE
IsInhibited(out) == out = "falsy"

\* An execute() call awaiting the inhibitor at place pos of its command's chain.
Inhibiting(c, ctx, pos) ==
    [pc |-> "inhibit", msg |-> NoMessage, cmd |-> c, ctx |-> ctx, pos |-> pos]

\* The calls in progress once execute() has invoked the handler: the handler
\* is not awaited, and the call returns.
ExecsAwaitingHandler(rest, c, ctx) ==
    rest (+) SetToBag({[pc |-> "handler", msg |-> NoMessage, cmd |-> c,
                        ctx |-> ctx, pos |-> 0]})
ExecsAfterInvoke(rest, c, ctx) == rest

\* The place callInhibitors' loop moves to from place pos.
NextInhibitorSkipping(pos) == pos + 2
NextInhibitor(pos) == pos + 1

\* execute() of command c after the inhibitors up to place pos have let it
\* pass (the last of them ending with out), for the calls rest: the next
\* inhibitor of the chain is called and awaited, or the chain is over and the
\* handler is invoked.
ExecuteStep(rest, c, ctx, pos, out) ==
    IF NextInhibitor(pos) <= Len(inhibitors[c])
    THEN /\ execs' = rest (+) SetToBag({Inhibiting(c, ctx, NextInhibitor(pos))})
         /\ lastExec' = [out |-> out, handler |-> "no"]
         /\ UNCHANGED handlers
    ELSE /\ execs' = ExecsAfterInvoke(rest, c, ctx)
         /\ handlers' = handlers + 1
         /\ lastExec' = [out |-> out,
                         handler |-> IF disabled[c] THEN "disabled" ELSE "enabled"]

\* command.execute(ctx), called directly.
Execute(c, ctx) ==
    /\ BagCardinality(execs) < MaxExecs
    /\ handlers + BagCardinality(execs) < MaxHandlers
    /\ ExecuteStep(execs, c, ctx, 0, "none")
    /\ UNCHANGED <<disabled, inhibitors, rejections>>
    /\ UNCHANGED <<clientVars, taskVars, registryVars, embedVars>>

\* The inhibitor awaited by the call e ends with out.
InhibitorSettles(e, out) ==
    /\ e \in BagToSet(execs)
    /\ e.pc = "inhibit"
    /\ out \in EvalInhibitor(inhibitors[e.cmd][e.pos], e.ctx)
    /\ IF IsInhibited(out)
       THEN /\ execs' = execs (-) SetToBag({e})
            /\ lastExec' = [out |-> out, handler |-> "no"]
            /\ UNCHANGED handlers
       ELSE ExecuteStep(execs (-) SetToBag({e}), e.cmd, e.ctx, e.pos, out)
    /\ UNCHANGED <<disabled, inhibitors, rejections>>
    /\ UNCHANGED <<clientVars, taskVars, registryVars, embedVars>>

\* The promise of a handler settles; nothing holds it.
HandlerSettles(ok) ==
    /\ handlers > 0
    /\ handlers' = handlers - 1
    /\ rejections' = IF ok THEN rejections ELSE 1 - rejections
    /\ UNCHANGED <<disabled, inhibitors, execs, lastExec>>
    /\ UNCHANGED <<clientVars, taskVars, registryVars, embedVars>>

\* The inhibitors added so far, over all commands.
RECURSIVE InhibitorsAdded(_)
InhibitorsAdded(cs) ==
    IF cs = {} THEN 0
    ELSE LET c == CHOOSE x \in cs : TRUE
         IN  Len(inhibitors[c]) + InhibitorsAdded(cs \ {c})

\* command.useInhibitor(inhibitor)
UseInhibitor(c, kind) ==
    /\ InhibitorsAdded(Cmds) < MaxInhibitors
    /\ inhibitors' = [inhibitors EXCEPT ![c] = Append(@, kind)]
    /\ UNCHANGED <<disabled, execs, handlers, lastExec, rejections>>
    /\ UNCHANGED <<clientVars, taskVars, registryVars, embedVars>>

\* command.disable() and command.enable()
Disable(c) ==
    /\ disabled' = [disabled EXCEPT ![c] = TRUE]
    /\ UNCHANGED <<inhibitors, execs, handlers, lastExec, rejections>>
    /\ UNCHANGED <<clientVars, taskVars, registryVars, embedVars>>

Enable(c) ==
    /\ disabled' = [disabled EXCEPT ![c] = FALSE]
    /\ UNCHANGED <<inhibitors, execs, handlers, lastExec, rejections>>
    /\ UNCHANGED <<clientVars, taskVars, registryVars, embedVars>>

ExecuteNext ==
    \/ \E c \in Cmds, k \in InhibitorKinds : UseInhibitor(c, k)
    \/ \E c \in Cmds, ctx \in Contexts : Execute(c, ctx)
    \/ \E e \in BagToSet(execs), out \in InhibitorOutcomes : InhibitorSettles(e, out)
    \/ \E ok \in Outcomes : HandlerSettles(ok)

ExecuteSpecInit == CommandIdle /\ RegistryInit /\ ClientInit /\ TaskIdle /\ EmbedInit

ExecuteSpec == ExecuteSpecInit /\ [][ExecuteNext]_vars

(***************************************************************************)
(* Properties of execute() (ExecuteSpec).  A step of an execute() call is  *)
(* seen from the calls in progress before and after it.                    *)
(***************************************************************************)
\* In this step the inhibitor awaited by the call e has ended; the way it
\* ended is lastExec'.out.
Settled(e) == e.pc = "inhibit" /\ CopiesIn(e, execs') < CopiesIn(e, execs)

\* In this step the call e went on to the next inhibitor of its chain.
Continues(e) ==
    LET n == Inhibiting(e.cmd, e.ctx, e.pos + 1)
    IN  CopiesIn(n, execs') > CopiesIn(n, execs)

\* In this step a handler was invoked, once.
Invoked == handlers' = handlers + 1

\* C14: a command whose chain is [guildOnly] runs its handler when executed
\* with a context that has a guild, and does not with one that has none; the
\* direct-message-only inhibitor passes iff the context's channel is a
\* direct or group channel.
C14_BuiltInInhibitors ==
    [][\A e \in BagToSet(execs) : Settled(e) =>
          /\ inhibitors[e.cmd] = <<"guildOnly">> =>
                ((Invoked <=> e.ctx.guild) /\ ~Continues(e))
          /\ inhibitors[e.cmd][e.pos] = "dmOnly" =>
                (lastExec'.out = IF e.ctx.channel \in {"DM", "Group"}
                                 THEN "truthy" ELSE "falsy")]_vars

\* C14, witness: the only inhibitor there is is guildOnly, and the last
\* execute() was inhibited by it.
C14_Witness ==
    /\ InhibitorsAdded(Cmds) = 1
    /\ \E c \in Cmds : inhibitors[c] = <<"guildOnly">>
    /\ lastExec = [out |-> "falsy", handler |-> "no"]
    /\ execs = EmptyBag

C16_ThrowingInhibitorInhibits ==
    [][\A e \in BagToSet(execs) : (Settled(e) /\ lastExec'.out = "throws") =>
          (~Invoked /\ ~Continues(e))]_vars

\* C17: the inhibitors of a chain are evaluated in the order they were
\* added, one at a time, from the first; a falsy one ends the call, no later
\* inhibitor is evaluated and the handler is not invoked; a handler is
\* invoked, once, only past the last inhibitor of a chain of which none was
\* falsy.
C17_ChainInOrder ==
    [][/\ \A e \in BagToSet(execs') :
             e.pc = "inhibit" => e.pos \in 1..Len(inhibitors'[e.cmd])
       /\ \A e \in BagToSet(execs) : Settled(e) =>
             IF lastExec'.out = "falsy"
             THEN ~Invoked /\ execs' = execs (-) SetToBag({e})
             ELSE IF e.pos < Len(inhibitors[e.cmd])
             THEN Continues(e) /\ ~Invoked
             ELSE Invoked /\ execs' = execs (-) SetToBag({e})
       /\ \A n \in BagToSet(execs') :
             (n.pc = "inhibit" /\ n.pos > 1 /\ CopiesIn(n, execs') > CopiesIn(n, execs)) =>
                 \E e \in BagToSet(execs) :
                     /\ Settled(e) /\ lastExec'.out # "falsy"
                     /\ e.cmd = n.cmd /\ e.ctx = n.ctx /\ e.pos + 1 = n.pos
       /\ handlers' > handlers =>
             /\ Invoked
             /\ \/ \E e \in BagToSet(execs) :
                      /\ Settled(e) /\ lastExec'.out # "falsy"
                      /\ e.pos = Len(inhibitors[e.cmd])
                \/ /\ lastExec'.out = "none"
                   /\ \E c \in Cmds : inhibitors[c] = <<>>]_vars

\* C17, witness: a command has a chain of two inhibitors, and the last
\* execute() invoked the handler after an inhibitor had let it pass.
C17_Witness ==
    /\ \E c \in Cmds : Len(inhibitors[c]) = 2
    /\ lastExec.out = "truthy" /\ lastExec.handler # "no"
    /\ execs = EmptyBag

(***************************************************************************)
(* CommandRegistry._handleMessage (src/src/commands/Context.ts, 192-204)   *)
(***************************************************************************)
\* The messages the transport delivers.
Inbound == {m \in Messages : m.text \in {<<"!", "u">>, <<"!", "w">>, <<"u">>}}

\* fetchGuildId(message), as a truth value.
fetchGuildId(msg) == msg.guild

\* `if (!cmd) { return; }`: the command found is dispatched.
DispatchableIfEnabled(c) == c # 0 /\ ~disabled[c]
Dispatchable(c) == c # 0

\* The alias table after registerCommand of each command of cs, from tbl.
RECURSIVE TableAfter(_, _)
TableAfter(tbl, cs) ==
    IF cs = <<>> THEN tbl
    ELSE LET c == Head(cs)
             named == [tbl |-> AliasSet(tbl, CmdName(c), c), warned |-> {}]
         IN  TableAfter(RegisterAliases(named, c, CmdAliases(c)).tbl, Tail(cs))

\* The commands registered when the modules were added, in this order.
Registrations == {<<1>>, <<1, 2>>}

\* The chains the commands were given when they were declared.
ChainSetups ==
    { [c \in Cmds |-> <<>>],
      [c \in Cmds |-> IF c = 1 THEN <<"guildOnly">> ELSE <<"custom">>],
      [c \in Cmds |-> IF c = 1 THEN <<"dmOnly">> ELSE <<>>] }

\* A registry with its commands registered, and no message received yet.
DispatchInit ==
    /\ \E cs \in Registrations :
          /\ regCommands = cs
          /\ aliases = TableAfter([k \in Keys |-> 0], cs)
          /\ nextCommandId = Len(cs)
    /\ lastOp = NoOp
    /\ ModulesIdle
    /\ disabled = [c \in Cmds |-> FALSE]
    /\ inhibitors \in ChainSetups
    /\ execs = EmptyBag
    /\ handlers = 0
    /\ lastExec = NoExec
    /\ rejections = 0

\* A _handleMessage() call awaiting the prefix of the guild of msg.
Finding(msg) ==
    [pc |-> "prefix", msg |-> msg, cmd |-> 0, ctx |-> GuildContext, pos |-> 0]

\* The transport emits messageCreate: _handleMessage(msg) returns at once for
\* a message without a guild id, otherwise findCommandFromMessage is called
\* and awaits the provider.
MessageCreate(msg) ==
    /\ BagCardinality(execs) < MaxExecs
    /\ handlers + BagCardinality(execs) < MaxHandlers
    /\ IF fetchGuildId(msg)
       THEN execs' = execs (+) SetToBag({Finding(msg)})
       ELSE UNCHANGED execs
    /\ UNCHANGED <<disabled, inhibitors, handlers, lastExec, rejections>>
    /\ UNCHANGED <<clientVars, taskVars, registryVars, embedVars>>

\* The provider has answered: findCommandFromMessage returns, and the command
\* found, if any, is executed with a context built from the message.
DispatchResume(e) ==
    /\ e \in BagToSet(execs)
    /\ e.pc = "prefix"
    /\ LET c == FindCommand(aliases, e.msg)
       IN  IF Dispatchable(c)
           THEN ExecuteStep(execs (-) SetToBag({e}), c, e.ctx, 0, "none")
           ELSE /\ execs' = execs (-) SetToBag({e})
                /\ UNCHANGED <<handlers, lastExec>>
    /\ UNCHANGED <<disabled, inhibitors, rejections>>
    /\ UNCHANGED <<clientVars, taskVars, registryVars, embedVars>>

DispatchNext ==
    \/ \E m \in Inbound : MessageCreate(m)
    \/ \E e \in BagToSet(execs) : DispatchResume(e)
    \/ \E e \in BagToSet(execs), out \in InhibitorOutcomes : InhibitorSettles(e, out)
    \/ \E ok \in Outcomes : HandlerSettles(ok)
    \/ \E c \in Cmds : Disable(c)
    \/ \E c \in Cmds : Enable(c)

DispatchSpecInit == DispatchInit /\ ClientInit /\ TaskIdle /\ EmbedInit

DispatchSpec == DispatchSpecInit /\ [][DispatchNext]_vars

C19_DisabledStillDispatched ==
    [][/\ disabled' # disabled =>
             UNCHANGED <<registryVars, inhibitors, execs, handlers, lastExec, rejections>>
       /\ \A e \in BagToSet(execs) : \A k \in Keys :
             ( /\ e.pc = "prefix" /\ CopiesIn(e, execs') < CopiesIn(e, execs)
               /\ SingleToken(k) /\ e.msg = GuildMessage(k)
               /\ aliases[k] # 0 /\ disabled[aliases[k]] ) =>
                 IF inhibitors[aliases[k]] = <<>>
                 THEN Invoked
                 ELSE CopiesIn(Inhibiting(aliases[k], GuildContext, 1), execs')
                          > CopiesIn(Inhibiting(aliases[k], GuildContext, 1), execs)]_vars

\* C19, witness: the handler of a disabled command has been invoked.
C19_Witness == lastExec.handler = "disabled" /\ \E c \in Cmds : disabled[c]

(***************************************************************************)
(* PagedEmbed (src/unnamed/part_001)                                       *)
(***************************************************************************)
\* The number that stands for NaN: no index the model reaches otherwise.
NaN == -1000

\* a + k and a % n on JavaScript numbers: NaN is absorbing, the remainder
\* has the sign of the dividend, and the remainder by zero is NaN.
JsAdd(a, k) == IF a = NaN THEN NaN ELSE a + k
JsRem(a, n) ==
    IF a = NaN \/ n = 0 THEN NaN
    ELSE IF a >= 0 THEN a % n ELSE 0 - ((0 - a) % n)

\* The arguments of changePage.
PageNumbers == {-2, 0, 1, 2, 5}

\* this.pages[i]
PageOf(i) == IF 0 <= i /\ i < pages THEN PageAt(i) ELSE Undefined

\* currentPage after refresh() with index i: nothing is done without a
\* message or once destroyed.
Refreshed(i) == IF message = 0 \/ destroyed THEN currentPage ELSE PageOf(i)

\* The index after nextPage() and after previousPage().
NextIndex(i) == JsRem(JsAdd(i, 1), pages)
PreviousIndex(i) == IF JsAdd(i, -1) = -1 THEN pages - 1 ELSE JsAdd(i, -1)

\* The request refresh() sends with index i: none without a message, once
\* destroyed, or when there is no page at i (the TypeError is caught).
RefreshReq(i) ==
    IF message = 0 \/ destroyed \/ PageOf(i) = Undefined THEN "none" ELSE "edit"

\* What a step that sends req to the transport records.
Sent(req) == [req |-> req, emitted |-> FALSE]

\* addPages(...pages) with k pages.
AddPages(k) ==
    /\ pages + k <= MaxPages
    /\ pages' = pages + k
    /\ currentPage' = IF currentPage = Undefined THEN PageAt(0) ELSE currentPage
    /\ lastNav' = NoNav
    /\ lastEmbedOp' = Sent("none")
    /\ UNCHANGED <<currentPageIndex, message, destroyed, creating, lifeVars>>
    /\ UNCHANGED <<clientVars, taskVars, registryVars, commandVars>>

\* nextPage(), with the refresh() it calls up to its await.
NextPage ==
    /\ currentPageIndex' = NextIndex(currentPageIndex)
    /\ currentPage' = Refreshed(currentPageIndex')
    /\ lastNav' = IF lastNav.op = "next" /\ lastNav.n < pages
                  THEN [lastNav EXCEPT !.n = @ + 1]
                  ELSE [op |-> "next", from |-> currentPageIndex, n |-> 1]
    /\ lastEmbedOp' = Sent(RefreshReq(currentPageIndex'))
    /\ UNCHANGED <<pages, message, destroyed, creating, lifeVars>>
    /\ UNCHANGED <<clientVars, taskVars, registryVars, commandVars>>

\* previousPage(), with the refresh() it calls up to its await.
PreviousPage ==
    /\ currentPageIndex = NaN \/ currentPageIndex > 0 - MaxBelow
    /\ currentPageIndex' = PreviousIndex(currentPageIndex)
    /\ currentPage' = Refreshed(currentPageIndex')
    /\ lastNav' = IF lastNav.op = "next" /\ lastNav.n = 1
                  THEN [op |-> "nextprev", from |-> lastNav.from, n |-> 1]
                  ELSE [op |-> "prev", from |-> currentPageIndex, n |-> 1]
    /\ lastEmbedOp' = Sent(RefreshReq(currentPageIndex'))
    /\ UNCHANGED <<pages, message, destroyed, creating, lifeVars>>
    /\ UNCHANGED <<clientVars, taskVars, registryVars, commandVars>>

\* changePage(pageNumber)
ChangePage(pageNumber) ==
    /\ currentPageIndex' = pageNumber
    /\ lastNav' = NoNav
    /\ lastEmbedOp' = Sent("none")
    /\ UNCHANGED <<pages, currentPage, message, destroyed, creating, lifeVars>>
    /\ UNCHANGED <<clientVars, taskVars, registryVars, commandVars>>

\* refresh(), up to its await.
Refresh ==
    /\ currentPage' = Refreshed(currentPageIndex)
    /\ lastEmbedOp' = Sent(RefreshReq(currentPageIndex))
    /\ UNCHANGED <<pages, currentPageIndex, message, destroyed, creating, lastNav, lifeVars>>
    /\ UNCHANGED <<clientVars, taskVars, registryVars, commandVars>>

\* init(), up to its await: the first page is selected and the message is
\* requested; with currentPage undefined the call fails before the request.
InitEmbed ==
    /\ creating < MaxInits
    /\ currentPage' = IF pages > 0 THEN PageAt(0) ELSE currentPage
    /\ creating' = IF currentPage' = Undefined THEN creating ELSE creating + 1
    /\ lastEmbedOp' = Sent(IF currentPage' = Undefined THEN "none" ELSE "createMessage")
    /\ UNCHANGED <<pages, currentPageIndex, message, destroyed, lastNav, lifeVars>>
    /\ UNCHANGED <<clientVars, taskVars, registryVars, commandVars>>

\* channel.createMessage settles: init() stores the message, or fails.
MessageCreated(ok) ==
    /\ creating > 0
    /\ creating' = creating - 1
    /\ message' = IF ok THEN 1 ELSE message
    /\ lastEmbedOp' = Sent("none")
    /\ UNCHANGED <<pages, currentPageIndex, currentPage, destroyed, lastNav, lifeVars>>
    /\ UNCHANGED <<clientVars, taskVars, registryVars, commandVars>>

\* The arguments of destroy: none, the empty string, a reason.
Contents == {"undefined", "", "done"}
Truthy(content) == content \notin {"undefined", ""}

\* The end of destroy(): _unregisterEventListeners(), removeAllListeners(),
\* destroyed = true.
TornDown ==
    /\ listening' = FALSE
    /\ controls' = 0
    /\ destroyed' = TRUE

\* The request n calls of destroy(content) send, up to their await.
DestroyReq(content) ==
    IF message = 0 THEN "none"
    ELSE IF Truthy(content) THEN "removeReactions" ELSE "delete"

\* n calls of destroy(content) in a row, each up to its await: with a
\* message the reactions are removed or the message is deleted, and the call
\* waits; without one the call runs to its end.
DestroyCalls(content, n) ==
    IF message = 0
    THEN /\ TornDown
         /\ UNCHANGED <<removing, deleting>>
    ELSE /\ removing' = IF Truthy(content) THEN removing + n ELSE removing
         /\ deleting' = IF Truthy(content) THEN deleting ELSE deleting + n
         /\ UNCHANGED <<listening, controls, destroyed>>

\* destroy(content), up to its await.
Destroy(content) ==
    /\ removing + deleting < MaxDestroys
    /\ DestroyCalls(content, 1)
    /\ lastEmbedOp' = Sent(DestroyReq(content))
    /\ UNCHANGED <<pages, currentPageIndex, currentPage, message, creating, lastNav,
                   adding, expiry>>
    /\ UNCHANGED <<clientVars, taskVars, registryVars, commandVars>>

\* message.removeReactions() settles in a destroy(content) call: on success
\* the message is edited (not awaited) and the embed is torn down; a failure,
\* or a message forgotten meanwhile, ends the call with an error.
ReactionsRemoved(ok) ==
    /\ removing > 0
    /\ removing' = removing - 1
    /\ IF ok /\ message # 0
       THEN /\ TornDown
            /\ lastEmbedOp' = Sent("edit")
       ELSE /\ UNCHANGED <<listening, controls, destroyed>>
            /\ lastEmbedOp' = Sent("none")
    /\ UNCHANGED <<pages, currentPageIndex, currentPage, message, creating, lastNav,
                   deleting, adding, expiry>>
    /\ UNCHANGED <<clientVars, taskVars, registryVars, commandVars>>

\* message.delete() settles in a destroy() call: on success the embed is torn
\* down; a failure ends the call with an error.
DeleteSettled(ok) ==
    /\ deleting > 0
    /\ deleting' = deleting - 1
    /\ IF ok THEN TornDown ELSE UNCHANGED <<listening, controls, destroyed>>
    /\ lastEmbedOp' = Sent("none")
    /\ UNCHANGED <<pages, currentPageIndex, currentPage, message, creating, lastNav,
                   removing, adding, expiry>>
    /\ UNCHANGED <<clientVars, taskVars, registryVars, commandVars>>

\* The timer armed by the constructor fires: destroy(expiryMessage ||
\* 'Timed out.'), up to its await.
ExpiryFires ==
    /\ expiry = "armed"
    /\ removing + deleting < MaxDestroys
    /\ expiry' = "fired"
    /\ DestroyCalls("done", 1)
    /\ lastEmbedOp' = Sent(DestroyReq("done"))
    /\ UNCHANGED <<pages, currentPageIndex, currentPage, message, creating, lastNav, adding>>
    /\ UNCHANGED <<clientVars, taskVars, registryVars, commandVars>>

\* addDefaultControls(), up to its first await.
AddDefaultControls ==
    /\ controls + BagCardinality(adding) < MaxControls
    /\ IF message = 0 \/ destroyed
       THEN /\ UNCHANGED adding
            /\ lastEmbedOp' = Sent("none")
       ELSE /\ adding' = adding (+) SetToBag({1})
            /\ lastEmbedOp' = Sent("addReaction")
    /\ UNCHANGED <<pages, currentPageIndex, currentPage, message, destroyed, creating,
                   lastNav, listening, controls, removing, deleting, expiry>>
    /\ UNCHANGED <<clientVars, taskVars, registryVars, commandVars>>

\* message.addReaction() settles in an addDefaultControls() call: the next
\* reaction is added, or after the third the control listeners are registered;
\* a failure, or a message forgotten meanwhile, ends the call with an error.
ReactionAdded(pos, ok) ==
    /\ BagIn(pos, adding)
    /\ IF ~ok \/ (pos < 3 /\ message = 0)
       THEN /\ adding' = adding (-) SetToBag({pos})
            /\ UNCHANGED controls
            /\ lastEmbedOp' = Sent("none")
       ELSE IF pos < 3
       THEN /\ adding' = (adding (-) SetToBag({pos})) (+) SetToBag({pos + 1})
            /\ UNCHANGED controls
            /\ lastEmbedOp' = Sent("addReaction")
       ELSE /\ adding' = adding (-) SetToBag({pos})
            /\ controls' = controls + 1
            /\ lastEmbedOp' = Sent("none")
    /\ UNCHANGED <<pages, currentPageIndex, currentPage, message, destroyed, creating,
                   lastNav, listening, removing, deleting, expiry>>
    /\ UNCHANGED <<clientVars, taskVars, registryVars, commandVars>>

\* The ids of the messages of the events: the embed's own message has id 1.
MessageIds == {1, 2}
\* The users who react: the dispatcher of the context, and somebody else.
Users == {"dispatcher", "other"}
\* The reactions: the three controls and another emoji.
Emojis == {"left", "right", "close", "other"}

\* The index after n calls of nextPage() and of previousPage().
RECURSIVE NextIndexTimes(_, _)
NextIndexTimes(i, n) == IF n = 0 THEN i ELSE NextIndexTimes(NextIndex(i), n - 1)
RECURSIVE PreviousIndexTimes(_, _)
PreviousIndexTimes(i, n) == IF n = 0 THEN i ELSE PreviousIndexTimes(PreviousIndex(i), n - 1)

\* `!this.message || msg.id != this.message.id || dispatcher.id != userId`
ReactionIgnoredByAnyone(id, user) == message = 0 \/ id # message
ReactionIgnored(id, user) == message = 0 \/ id # message \/ user # "dispatcher"

\* What a step records in which the embed emits the reaction.
Emitted(req) == [req |-> req, emitted |-> TRUE]

\* The client emits messageReactionAdd or messageReactionRemove:
\* _handleReaction(msg, reaction, userId, removed).  An accepted reaction is
\* emitted by the embed twice, and each set of control listeners runs
\* previousPage(), nextPage() or destroy('Menu closed.').
ReactionEvent(id, user, emoji, removed) ==
    /\ listening
    /\ IF ReactionIgnored(id, user)
       THEN /\ lastEmbedOp' = Sent("none")
            /\ UNCHANGED <<currentPageIndex, currentPage, lastNav, removing, deleting,
                           listening, controls, destroyed>>
       ELSE IF emoji = "close" /\ controls > 0
       THEN /\ removing + deleting + controls <= MaxDestroys
            /\ DestroyCalls("done", controls)
            /\ lastEmbedOp' = Emitted("removeReactions")
            /\ UNCHANGED <<currentPageIndex, currentPage, lastNav>>
       ELSE IF emoji \in {"left", "right"} /\ controls > 0
       THEN /\ emoji = "left" =>
                  (currentPageIndex = NaN \/ currentPageIndex - controls >= 0 - MaxBelow)
            /\ currentPageIndex' = IF emoji = "left"
                                   THEN PreviousIndexTimes(currentPageIndex, controls)
                                   ELSE NextIndexTimes(currentPageIndex, controls)
            /\ currentPage' = Refreshed(currentPageIndex')
            /\ lastNav' = NoNav
            /\ lastEmbedOp' =
                  Emitted(IF \E n \in 1..controls :
                                RefreshReq(IF emoji = "left"
                                           THEN PreviousIndexTimes(currentPageIndex, n)
                                           ELSE NextIndexTimes(currentPageIndex, n)) = "edit"
                          THEN "edit" ELSE "none")
            /\ UNCHANGED <<removing, deleting, listening, controls, destroyed>>
       ELSE /\ lastEmbedOp' = Emitted("none")
            /\ UNCHANGED <<currentPageIndex, currentPage, lastNav, removing, deleting,
                           listening, controls, destroyed>>
    /\ UNCHANGED <<pages, message, creating, adding, expiry>>
    /\ UNCHANGED <<clientVars, taskVars, registryVars, commandVars>>

\* `this.message && msg.id === this.message.id`
AnyMessage(id) == message # 0
OwnMessage(id) == message # 0 /\ id = message

\* The client emits messageDelete: _handleMessageDelete(msg).  For the
\* embed's own message the message is forgotten and destroy() runs to its end.
MessageDeleteEvent(id) ==
    /\ listening
    /\ IF OwnMessage(id)
       THEN /\ message' = 0
            /\ TornDown
       ELSE UNCHANGED <<message, listening, controls, destroyed>>
    /\ lastEmbedOp' = Sent("none")
    /\ UNCHANGED <<pages, currentPageIndex, currentPage, creating, lastNav,
                   removing, deleting, adding, expiry>>
    /\ UNCHANGED <<clientVars, taskVars, registryVars, commandVars>>

\* The values of options.expireAfter.
ExpireAfters == {0, 1000}

\* Navigation: pages are added and turned, with or without a message.
PagedNext ==
    \/ \E k \in 1..2 : AddPages(k)
    \/ NextPage
    \/ PreviousPage
    \/ \E n \in PageNumbers : ChangePage(n)
    \/ Refresh
    \/ InitEmbed
    \/ \E ok \in BOOLEAN : MessageCreated(ok)

PagedSpecInit == EmbedInit /\ ClientInit /\ TaskIdle /\ RegistryInit /\ CommandIdle

PagedSpec == PagedSpecInit /\ [][PagedNext]_vars

\* The life of an embed: every public operation, every continuation, and the
\* events of the client and of the timer.
LifeNext ==
    \/ AddPages(2)
    \/ NextPage
    \/ PreviousPage
    \/ ChangePage(1)
    \/ Refresh
    \/ InitEmbed
    \/ \E ok \in BOOLEAN : MessageCreated(ok)
    \/ \E content \in Contents : Destroy(content)
    \/ \E ok \in BOOLEAN : ReactionsRemoved(ok)
    \/ \E ok \in BOOLEAN : DeleteSettled(ok)
    \/ ExpiryFires
    \/ AddDefaultControls
    \/ \E pos \in 1..3, ok \in BOOLEAN : ReactionAdded(pos, ok)
    \/ \E id \in MessageIds, user \in Users, emoji \in Emojis, removed \in BOOLEAN :
          ReactionEvent(id, user, emoji, removed)
    \/ \E id \in MessageIds : MessageDeleteEvent(id)

LifeSpecInit ==
    /\ \E expireAfter \in ExpireAfters : Constructed(expireAfter)
    /\ ClientInit /\ TaskIdle /\ RegistryInit /\ CommandIdle

LifeSpec == LifeSpecInit /\ [][LifeNext]_vars

(***************************************************************************)
(* Properties of the PagedEmbed (PagedSpec).                               *)
(***************************************************************************)
\* a modulo n, in 0 .. n-1
Modulo(a, n) == ((a % n) + n) % n

\* What C20 says of a run of navigation calls that started at index from.
WrapsFrom(from) ==
    /\ (lastNav.op = "next" /\ lastNav.n = 1) =>
           currentPageIndex = Modulo(from + 1, pages)
    /\ (lastNav.op = "next" /\ lastNav.n = pages) => currentPageIndex = from
    /\ lastNav.op = "prev" => currentPageIndex = Modulo(from - 1, pages)
    /\ (lastNav.op = "prev" /\ from = 0) => currentPageIndex = pages - 1
    /\ lastNav.op = "nextprev" => currentPageIndex = from

\* C20: with N >= 1 pages, nextPage() and previousPage() move the index by
\* one modulo N: N calls of nextPage() return to the index they started
\* from, previousPage() from 0 gives N-1, and nextPage() then previousPage()
\* restores the index.
C20_WrapsBothWays == pages >= 1 => WrapsFrom(lastNav.from)

\* The same for the runs that start from an index of a page.
WrapsFromPageIndex ==
    (pages >= 1 /\ 0 <= lastNav.from /\ lastNav.from < pages) =>
        WrapsFrom(lastNav.from)

\* A run of the kind C20 describes has happened from the index of a page:
\* three calls of nextPage() from 0, with three pages.
WrappedFromPageIndex ==
    pages = 3 /\ lastNav = [op |-> "next", from |-> 0, n |-> 3]

(***************************************************************************)
(* Properties of the life of a PagedEmbed (LifeSpec).                      *)
(***************************************************************************)
\* A step that is a call of a public operation, up to its first await.
PublicCall ==
    \/ \E k \in 1..2 : AddPages(k)
    \/ NextPage
    \/ PreviousPage
    \/ \E n \in PageNumbers : ChangePage(n)
    \/ Refresh
    \/ InitEmbed
    \/ AddDefaultControls
    \/ \E content \in Contents : Destroy(content)

\* The step sends nothing to the transport.
NoRequest == lastEmbedOp'.req = "none"

\* C21: once the embed is destroyed, a call of a public operation leaves
\* currentPageIndex, pages and the message handle unchanged and sends no
\* request to the transport.
C21_DestroyedIsInert ==
    [][(destroyed /\ PublicCall) =>
           (UNCHANGED <<currentPageIndex, pages, message>> /\ NoRequest)]_vars

\* The embed is torn down: destroyed, and its client listeners removed.
Destroyed == destroyed /\ ~listening

\* What C22 says of the steps of a destroy call whose transport request
\* settles with one of oks: with a reason the reactions are removed, then the
\* message is edited; without one the message is deleted and not edited; the
\* call ends with the embed torn down.
DestroyEffects(oks) ==
    /\ \A content \in Contents :
          (message # 0 /\ Destroy(content)) =>
              lastEmbedOp'.req = IF Truthy(content) THEN "removeReactions" ELSE "delete"
    /\ (\E ok \in oks : ReactionsRemoved(ok)) =>
          (Destroyed' /\ (message # 0 => lastEmbedOp'.req = "edit"))
    /\ (\E ok \in oks : DeleteSettled(ok)) =>
          (Destroyed' /\ NoRequest)

\* C22: on an initialized embed destroy(reason) removes the reactions and
\* edits the message, and never deletes it; destroy() deletes the message and
\* never edits it; in both cases the call ends with the embed destroyed and
\* its client listeners removed.
C22_DestroyEffects == [][DestroyEffects(BOOLEAN)]_vars

\* The same for the calls whose transport request succeeds.
DestroyEffectsOnSuccess == [][DestroyEffects({TRUE})]_vars

\* C23: a destroy call made after another destroy call has finished, or
\* while one is waiting for the transport, sends no request and changes
\* nothing of the embed.
C23_DestroyIdempotent ==
    [][(\E content \in Contents :
            Destroy(content) /\ (destroyed \/ removing + deleting > 0)) =>
           (NoRequest /\ UNCHANGED <<message, destroyed, listening, controls>>)]_vars

\* C24: when the timer of an embed that is not destroyed fires, destroy is
\* called with the expiry message: the reactions of the message are removed,
\* or an embed without message is torn down at once; when the timer of a
\* destroyed embed fires, nothing is sent and nothing changes; without
\* expireAfter no timer is armed.
C24_Expiry ==
    [][/\ (ExpiryFires /\ ~destroyed) =>
             IF message # 0
             THEN lastEmbedOp'.req = "removeReactions" /\ removing' = removing + 1
             ELSE Destroyed'
       /\ (ExpiryFires /\ destroyed) =>
             (NoRequest /\ UNCHANGED <<message, destroyed, listening, controls,
                                       removing, deleting>>)
       /\ expiry = "none" => expiry' = "none"]_vars

\* The part of C24 about an embed destroyed by the deletion of its message:
\* nothing is sent, and nothing changes but the control listeners that an
\* addDefaultControls() call registered after the destruction.
ExpiryAfterDeletion ==
    [][(ExpiryFires /\ destroyed /\ message = 0) =>
           (NoRequest /\ UNCHANGED <<message, destroyed, listening,
                                     removing, deleting>>)]_vars

\* The timer has fired on an embed destroyed by the deletion of its message.
ExpiredAfterDeletion ==
    expiry = "fired" /\ destroyed /\ message = 0 /\ currentPage = PageAt(1)

\* C25: a reaction event turns the page, starts a destroy call, sends a
\* request or makes the embed emit only if the embed has a message, the event
\* is about that message, and the user who reacted is the dispatcher of the
\* context.
C25_OnlyOwnReactions ==
    [][( \/ currentPageIndex' # currentPageIndex
         \/ destroyed' # destroyed
         \/ removing' # removing
         \/ deleting' # deleting
         \/ lastEmbedOp'.emitted
         \/ ~NoRequest ) =>
           \A id \in MessageIds, user \in Users, emoji \in Emojis, removed \in BOOLEAN :
              ReactionEvent(id, user, emoji, removed) =>
                  (message # 0 /\ id = message /\ user = "dispatcher")]_vars

\* C25, witness: a reaction of the dispatcher on the embed's message has
\* turned the page of an embed with controls, and the page was sent.
C25_Witness ==
    /\ lastEmbedOp = Emitted("edit")
    /\ controls > 0 /\ message # 0 /\ currentPageIndex = 1

\* C30: when the client reports the deletion of the message of an
\* initialized embed, the embed is torn down and nothing is sent to the
\* transport; the deletion of another message changes nothing of the embed.
C30_ExternalDeletion ==
    [][\A id \in MessageIds :
          MessageDeleteEvent(id) =>
             IF message # 0 /\ id = message
             THEN Destroyed' /\ NoRequest /\ UNCHANGED <<removing, deleting, creating, adding>>
             ELSE UNCHANGED <<pages, currentPageIndex, currentPage, message, destroyed,
                              creating, lifeVars>>]_vars

\* C30, witness: an embed that has shown its second page has lost its
\* message and is torn down, with no destroy call waiting for the transport.
C30_Witness ==
    /\ Destroyed /\ message = 0 /\ currentPage = PageAt(1)
    /\ removing = 0 /\ deleting = 0 /\ lastEmbedOp = Sent("none")

(***************************************************************************)
(* More properties of the client (ClientSpec) and of the task (TaskSpec).  *)
(***************************************************************************)
\* C26: connect() without a token ends the process with status 1 at once:
\* the call goes no further (the provider is not initialized), no willInit or
\* didInit hook has been invoked, no connection of the transport has been
\* attempted, connectionStatus is DISCONNECTED, and nothing runs afterwards.
C26_NoTokenExits ==
    [][exitCode' = 1 =>
          /\ conn'.pc = "exited"
          /\ connectionStatus' = "DISCONNECTED"
          /\ transport' # "connected"
          /\ \A i \in Instances :
                started'["willInit"][i] = 0 /\ started'["didInit"][i] = 0
          /\ exitCode = 1 => UNCHANGED clientVars]_vars

\* C26, witness: connect('') has ended the process of a client to which a
\* module had been added.
C26_Witness == exitCode = 1 /\ modOrder # <<>> /\ connectionStatus = "DISCONNECTED"

(***************************************************************************)
(* More properties of the registry (RegistrySpec).                         *)
(***************************************************************************)
\* The commands table maps the ids 0 .. n-1 to commands: regCommands[i + 1]
\* is the command of id i.  A registration gives the new command the id
\* nextCommandId, above every id given before, and keeps the older entries.
FreshAscendingId ==
    regCommands' # regCommands =>
        /\ Len(regCommands) = nextCommandId
        /\ nextCommandId' = nextCommandId + 1
        /\ Len(regCommands') = nextCommandId'
        /\ SubSeq(regCommands', 1, Len(regCommands)) = regCommands

\* No command has two entries in the commands table.
Deduplicated(tbl) ==
    \A i, j \in DOMAIN tbl : tbl[i] = tbl[j] => i = j

\* C27: registerCommand gives each command a fresh id above every id given
\* before, and a command registered more than once has one entry in the
\* commands table.
C27_FreshIdsNoDuplicates ==
    [][FreshAscendingId /\ Deduplicated(regCommands')]_vars

\* The part of C27 about the ids.
FreshAscendingIds == [][FreshAscendingId]_vars

\* Three commands have been registered under the ids 0, 1, 2.
ThreeIdsGiven == nextCommandId = 3 /\ Len(regCommands) = 3

(***************************************************************************)
(* Module.addCommand (src/src/modules/Module.ts, 87-94)                    *)
(***************************************************************************)
\* this.client.emit("commandAdd", command): the registry's listener calls
\* registerCommand(command) before emit returns.
EmitCommandAddUnheard(c) ==
    nextCommandId < MaxRegistrations /\ UNCHANGED <<regCommands, aliases, nextCommandId, lastOp>>
EmitCommandAdd(c) == Registering(c)

\* addCommand(c) on module mo.
AddCommand(mo, c) ==
    /\ modCommands' = [modCommands EXCEPT ![mo][CmdName(c)] = c]
    /\ owner' = [owner EXCEPT ![c] = mo]
    /\ EmitCommandAdd(c)
    /\ UNCHANGED <<clientVars, taskVars, commandVars, embedVars>>

ModuleNext ==
    \/ \E mo \in ModuleIds, c \in Cmds : AddCommand(mo, c)
    \/ \E c \in Cmds : RegisterCommand(c)
    \/ \E k \in Keys : UnregisterCommandAlias(k)

ModuleSpecInit == RegistryInit /\ ClientInit /\ TaskIdle /\ CommandIdle /\ EmbedInit

ModuleSpec == ModuleSpecInit /\ [][ModuleNext]_vars

\* C28: addCommand(c) on a module stores c under its name in that module's
\* map and nowhere else, makes the module the owner of c and of no other
\* command, and leaves the registry's alias table mapping the name of c and
\* each alias of c to c.
C28_AddCommand ==
    [][\A mo \in ModuleIds, c \in Cmds :
          AddCommand(mo, c) =>
             /\ modCommands'[mo][CmdName(c)] = c
             /\ \A m2 \in ModuleIds, k \in Keys :
                   (m2 # mo \/ k # CmdName(c)) => modCommands'[m2][k] = modCommands[m2][k]
             /\ owner'[c] = mo
             /\ \A c2 \in Cmds \ {c} : owner'[c2] = owner[c2]
             /\ \A k \in KeysOf(c) : aliases'[k] = c]_vars

\* C28, witness: a command added to a module has replaced the command of
\* the same name, has been moved from another module, and its aliases
\* resolve to it.
C28_Witness ==
    /\ modCommands[1][Key_uwu] = 2 /\ modCommands[2][Key_uwu] = 2
    /\ owner = <<1, 1>>
    /\ aliases[Key_u_w] = 2 /\ aliases[Key_u] = 2 /\ aliases[Key_uwu] = 2

\* The handlers invoked by trigger() that have not settled.
HandlersInFlight ==
    inFlight + Cardinality({k \in 1..Len(startCalls) : startCalls[k].pc = "trigger"})

\* C29: stop() leaves loopCount and the triggers in progress as they are,
\* and once stop() has been called the end of a handler that was in flight,
\* fulfilled or failed, still adds one to loopCount.
C29_StopLeavesTriggers ==
    [][/\ StopTask => UNCHANGED <<loopCount, inFlight, startCalls, triggered>>
       /\ (lastCall = "stop" /\ HandlersInFlight' < HandlersInFlight) =>
             loopCount' = loopCount + 1]_vars

\* C29, witness: stop() has cancelled the interval of a task that has
\* completed a trigger and has another one in flight.
C29_Witness ==
    /\ lastCall = "stop" /\ stopLog # <<>> /\ stopLog[1].cancelled
    /\ HandlersInFlight > 0 /\ loopCount > 0

(***************************************************************************)
(* PagedEmbed: the page index                                              *)
(***************************************************************************)
\* get initialized(): the embed holds a message.
initialized == message # 0

\* C31: in every state of an initialized embed that is not destroyed the
\* page sequence is non-empty and 0 <= currentPageIndex < number of pages,
\* after any sequence of init, addPages, nextPage, previousPage and
\* changePage calls.
C31_IndexInRange ==
    (initialized /\ ~destroyed) =>
        (pages > 0 /\ 0 <= currentPageIndex /\ currentPageIndex < pages)

(***************************************************************************)
(* Client: what the framework does on its own                              *)
(***************************************************************************)
\* The steps that need neither a call from user code nor an event of the
\* transport: a pending promise settles and the call awaiting it goes on.
FrameworkStep ==
    \/ ConnectProviderReady
    \/ \E ok \in Outcomes : ConnectHookSettles(ok)
    \/ ConnectListen
    \/ \E r \in BagToSet(readyH), ok \in Outcomes : ReadyHookSettles(r, ok)
    \/ \E c \in adds, ok \in Outcomes : AddHookSettles(c, ok)
    \/ \E ok \in Outcomes : StopHookSettles(ok)

\* The client's lifecycle where no enabled framework step is put off
\* forever; the calls of user code (connect, addModule, stop) and the
\* transport's ready events may or may not come.
ClientLiveSpec == ClientSpecInit /\ [][ClientNext]_vars /\ WF_vars(FrameworkStep)

\* C32: once a module that declares a task is held and the client is
\* ready, the task's handler eventually triggers without a call of
\* startTasks()/startTask() from user code (or the process has exited).
C32_TaskStartedByFramework ==
    (connectionStatus = "READY" /\ modOrder # <<>>)
        ~> (triggered > 0 \/ exitCode # -1)

\* No step of the client's lifecycle calls start() on a task: holds.
LifecycleStartsNoTask ==
    [][startCalls' = startCalls /\ triggered' = triggered /\ intervals' = intervals]_vars

(***************************************************************************)
(* CommandRegistry: messages without the prefix                            *)
(***************************************************************************)
\* C33: findCommandFromMessage resolves a command only for a message whose
\* text begins with the origin's prefix: a guild message whose first
\* prefix-length characters differ from the prefix resolves to no command.
C33_OnlyPrefixedResolve ==
    (lastOp.op = "find" /\ lastOp.msg.guild
        /\ ~StartsWith(lastOp.msg.text, DEFAULT_PREFIX)) => lastOp.cmd = 0

(***************************************************************************)
(* ModuleTask: the armed timers and the handlers in flight                 *)
(***************************************************************************)
\* C34: a task has at most one armed repeating timer at any time, and every
\* armed timer is the one held in this.timer, which one stop() call
\* cancels, after any sequence of start() and stop() calls.
C34_OneCancellableTimer ==
    /\ Cardinality(intervals) <= 1
    /\ \A i \in intervals : i.h = timer

\* C35: triggers of one task never overlap: at most one invocation of the
\* task's handler is in flight at any time, here for a task on which
\* start() was called at most once.
C35_TriggersNeverOverlap == Len(startCalls) <= 1 => HandlersInFlight <= 1

(***************************************************************************)
(* Command: the inhibitors given in the options                            *)
(***************************************************************************)
\* CommandOptions.inhibitors of each Command instance: the second command
\* is constructed with {inhibitors: [guildOnlyInhibitor]}.  The constructor
\* stores the options in this.options; this.inhibitors starts empty.
OptionInhibitors == [c \in Cmds |-> IF c = 2 THEN <<"guildOnly">> ELSE <<>>]

\* Every inhibitor of the options of command c lets context ctx pass.
OptionsPass(c, ctx) ==
    \A i \in 1..Len(OptionInhibitors[c]) :
        "falsy" \notin EvalInhibitor(OptionInhibitors[c][i], ctx)

\* C36: every inhibitor configured on a command is consulted by execute():
\* the handler is invoked only in a context that every inhibitor of the
\* command's options.inhibitors lets pass, as for one added with
\* useInhibitor().
C36_OptionInhibitorsConsulted ==
    [][Invoked =>
          /\ \A c \in Cmds, ctx \in Contexts :
                Execute(c, ctx) => OptionsPass(c, ctx)
          /\ \A e \in BagToSet(execs) :
                Settled(e) => OptionsPass(e.cmd, e.ctx)]_vars

\* The same inhibitor added with useInhibitor() is consulted: a handler is
\* invoked only in a context the built-in inhibitors of this.inhibitors
\* let pass: holds.
UsedInhibitorsConsulted ==
    [][Invoked =>
          /\ \A c \in Cmds, ctx \in Contexts :
                Execute(c, ctx) => inhibitors[c] = <<>>
          /\ \A e \in BagToSet(execs) :
                Settled(e) =>
                    \A i \in 1..Len(inhibitors[e.cmd]) :
                        inhibitors[e.cmd][i] \in {"guildOnly", "dmOnly"} =>
                            "truthy" \in EvalInhibitor(inhibitors[e.cmd][i], e.ctx)]_vars

(***************************************************************************)
(* Dispatch of a command that is direct-message only                       *)
(***************************************************************************)
\* Dispatch where messages of every kind keep arriving and no pending
\* await is put off forever.
DispatchLiveSpec ==
    /\ DispatchSpecInit
    /\ [][DispatchNext]_vars
    /\ \A m \in Inbound : SF_vars(MessageCreate(m))
    /\ WF_vars(\E e \in BagToSet(execs) : DispatchResume(e))
    /\ WF_vars(\E e \in BagToSet(execs), out \in InhibitorOutcomes : InhibitorSettles(e, out))
    /\ WF_vars(\E ok \in Outcomes : HandlerSettles(ok))

\* The command stored under "u" is guarded by the direct-message-only
\* inhibitor alone, and no command has another inhibitor.
DmOnlyRegistered ==
    /\ aliases[Key_u] # 0 /\ inhibitors[aliases[Key_u]] = <<"dmOnly">>
    /\ \A c \in Cmds : inhibitors[c] \in {<<>>, <<"dmOnly">>}

\* In this step the handler of a command guarded by dmOnly alone is invoked.
DmOnlyHandlerRuns ==
    /\ Invoked
    /\ \E e \in BagToSet(execs) : Settled(e) /\ inhibitors[e.cmd] = <<"dmOnly">>

\* The last step of an execute() call invoked the handler after an
\* inhibitor had let the call pass.
HandlerRanPastInhibitor == lastExec.out = "truthy" /\ lastExec.handler # "no"

\* C37: a registered command guarded by the direct-message-only inhibitor
\* alone can be executed through dispatch: with messages of every kind
\* arriving, among them the direct message "!u" naming the command, the
\* registry runs the command's handler for one of them.
C37_DmOnlyDispatched == DmOnlyRegistered => <>HandlerRanPastInhibitor

\* No step of dispatch invokes the handler of a command guarded by dmOnly
\* alone, and a message without guild id starts no call: holds.
DmOnlyNeverDispatched ==
    [][/\ ~DmOnlyHandlerRuns
       /\ \A m \in Inbound : (MessageCreate(m) /\ ~fetchGuildId(m)) => UNCHANGED vars]_vars

(***************************************************************************)
(* PagedEmbed: destruction and the operations in flight                    *)
(***************************************************************************)
\* A destroyed embed that holds no message does not come to hold one: the
\* message created by an init() that was awaiting channel.createMessage
\* when destroy completed is not kept.
DestroyedGetsNoMessage == (destroyed /\ message = 0) => message' = 0

\* While a destroy() call awaits message.delete(), the listeners run by a
\* reaction event send no edit of the message.
NoEditWhileDeleting ==
    (deleting > 0 /\ lastEmbedOp'.emitted) => lastEmbedOp'.req # "edit"

\* C38: destruction is safe against the operations in flight: (a) when
\* destroy completes while init() awaits the creation of the message, the
\* embed does not end up destroyed and holding a live message; (b) once
\* destroy has requested the deletion of the message, no edit of it is
\* sent, whatever reaction arrives before the deletion settles.
C38_DestroySafeInFlight ==
    [][DestroyedGetsNoMessage /\ NoEditWhileDeleting]_vars

\* Part (a) and part (b) of C38, each alone: both are violated.
DestroySafeAgainstInit == [][DestroyedGetsNoMessage]_vars
DestroySafeAgainstReactions == [][NoEditWhileDeleting]_vars

(***************************************************************************)
(* Client: how often a module's hooks are invoked                          *)
(***************************************************************************)
\* C39: moduleWillInit and moduleDidInit of each module instance are
\* invoked at most once, for any interleaving of connect, repeated ready
\* events and addModule calls.
C39_InitHooksOnce ==
    \A i \in Instances : started.willInit[i] <= 1 /\ started.didInit[i] <= 1

\* The same for moduleDidInit while the transport has emitted ready at most
\* once: violated as well, by an addModule call made while
\* postInitializeModules is in progress.
DidInitOnceWithoutReconnect ==
    readyCount <= 1 => \A i \in Instances : started.didInit[i] <= 1

(***************************************************************************)
(* The alias table and the commands the modules hold                       *)
(***************************************************************************)
\* Command c is current: some module holds it under its name.
Current(c) == \E mo \in ModuleIds : modCommands[mo][CmdName(c)] = c

\* C40: the alias table resolves only to commands that are current: once
\* addCommand has replaced a command of the same name in its module, no
\* alias resolves to the replaced command.
C40_AliasesCurrent ==
    \A k \in Keys :
        (aliases[k] # 0 /\ owner[aliases[k]] # 0) => Current(aliases[k])

====
